---- MODULE Spec2Model ----
(***************************************************************************)
(* Model of maturin's import hook: the cross-process file lock             *)
(* (maturin/import_hook/_file_lock.py), the build cache                    *)
(* (maturin/import_hook/_building.py), the freshness checks and the two    *)
(* finders (maturin/import_hook/project_importer.py and                    *)
(* maturin/import_hook/rust_file_importer.py).                             *)
(*                                                                         *)
(* Every interpreter process owns one finder with one BuildCache and hence *)
(* one FileLock instance, so a process and its lock instance share an id.  *)
(* Lock methods are modelled statement by statement where a statement is   *)
(* visible to other processes (a system call on the lock file) or changes  *)
(* the instance's _is_locked flag.                                         *)
(***************************************************************************)
EXTENDS Integers, Sequences, FiniteSets, TLC

(***************************************************************************)
(* Bounds of the model.                                                    *)
(***************************************************************************)
NumProcs == 2
MaxClock == 2
MaxBuilds == 2

Procs == 1..NumProcs

(***************************************************************************)
(* Values standing for Python's None, one per type.                        *)
(***************************************************************************)
NoOwner == 0
NoMtime == 0
NoneStr == "<None>"
NoneInt == -1

\* pathlib.Path(s) and str(path)
Path(str) == [path |-> str]
StrOfPath(p) == p.path

NoStatus == [build_mtime |-> NoMtime, source_path |-> Path(NoneStr),
             maturin_args |-> <<>>, maturin_output |-> NoneStr]

(***************************************************************************)
(* Time.  File modification times are seconds since the epoch; the clock   *)
(* of the model counts whole seconds after Epoch.                          *)
(***************************************************************************)
Epoch == 1700000000
Mtimes == {Epoch + k : k \in 0..MaxClock}

Abs(x) == IF x < 0 THEN -x ELSE x
Max2(a, b) == IF a >= b THEN a ELSE b
SetMax(S) == CHOOSE x \in S : \A y \in S : y <= x
SetMin(S) == CHOOSE x \in S : \A y \in S : x <= y

(***************************************************************************)
(* math.isclose(a, b) with the default rel_tol = 1e-09 and abs_tol = 0:    *)
(*   abs(a - b) <= rel_tol * max(abs(a), abs(b)).                          *)
(* For whole numbers the right-hand side can be rounded down.              *)
(***************************************************************************)
RelTolInverse == 1000000000
IsClose(a, b) == Abs(a - b) <= Max2(Abs(a), Abs(b)) \div RelTolInverse

VARIABLES
    lockKind,        \* which FileLock subclass FileLock.new picked
    timeout_seconds, \* FileLock._timeout_seconds: "None" or "finite"
    osLock,          \* holder of the flock / msvcrt region lock on the lock file
    lockFile,        \* whether the lock file exists on disk
    fd,              \* AtomicOpenLock._fd is not None, per instance
    is_locked,       \* FileLock._is_locked, per instance
    first_attempt,   \* acquire()'s first_attempt local, per instance
    waiting_notices, \* notices logged by the acquire() call of an instance
    pc,              \* position of every process
    importing,       \* the module a process's find_spec is working on
    force_rebuild,   \* the finders' force_rebuild
    settings,        \* what get_settings returns to the running find_spec
    result,          \* what the freshness check returned to the process
    cache_calls,     \* LockedBuildCache methods the running find_spec called
    outcome,         \* how the last find_spec of the process ended
    fs,              \* modification time of every file, NoMtime if missing
    build_status,    \* the build cache: record file per source path
    now,             \* the clock
    builds,          \* runs of the build tool started so far, per source
    focus,           \* the source the behaviour is about
    oin,             \* inputs of a freshness check on its own
    oout,            \* its result
    cache_op         \* the last call on a build cache on its own, and its result

lockVars == <<lockKind, timeout_seconds, osLock, lockFile, fd, is_locked, first_attempt,
             waiting_notices>>
hookVars == <<importing, force_rebuild, settings, result, cache_calls, outcome,
              fs, build_status, now, builds, focus>>
oracleVars == <<oin, oout, cache_op>>
vars == <<lockKind, timeout_seconds, osLock, lockFile, fd, is_locked, first_attempt,
          waiting_notices,
          pc, importing, force_rebuild, settings, result, cache_calls, outcome,
          fs, build_status, now, builds, focus, oin, oout, cache_op>>

LockKinds == {"FcntlFileLock", "WindowsFileLock", "AtomicOpenLock"}

\* FileLock.new: the subclass picked on a platform, given os.name, whether
\* the fcntl module can be imported and platform.platform().lower()
FileLockNew(os_name, has_fcntl, platform_lower) ==
    IF os_name = "posix"
    THEN IF ~has_fcntl THEN "AtomicOpenLock" ELSE "FcntlFileLock"
    ELSE IF platform_lower = "windows" THEN "WindowsFileLock"
    ELSE "AtomicOpenLock"

\* the platforms of the model: Linux, a posix system without fcntl, and
\* Windows, where platform.platform() is "Windows-10-10.0.19045-SP0"
Platforms ==
    {[os_name |-> "posix", has_fcntl |-> TRUE, platform_lower |-> "linux-6.1-x86_64"],
     [os_name |-> "posix", has_fcntl |-> FALSE, platform_lower |-> "wasi"],
     [os_name |-> "nt", has_fcntl |-> FALSE, platform_lower |-> "windows-10-10.0.19045-sp0"]}


(***************************************************************************)
(* FileLock (maturin/import_hook/_file_lock.py).                           *)
(*                                                                         *)
(* Positions inside the lock methods:                                      *)
(*   acq_try     in acquire()'s loop, about to call try_acquire()          *)
(*   acq_set     try_acquire()'s system call succeeded, flag not yet set   *)
(*   acq_failed  try_acquire() returned without the lock                   *)
(*   acq_done    acquire() returned                                        *)
(*   acq_raise   acquire() raised (LockError or TimeoutError)              *)
(*   try_enter / try_set / try_done   try_acquire() called on its own      *)
(*   rel_enter   release() called                                          *)
(*   rel_set     the OS lock is given back, flag not yet cleared           *)
(*   rel_unlink  AtomicOpenLock: flag cleared, lock file not yet unlinked  *)
(*   rel_done    release() returned                                        *)
(***************************************************************************)

\* a system call that never reports the lock as taken
SysLockSucceeds_Always(i) == TRUE

\* The non-blocking system call of try_acquire succeeds: flock(LOCK_EX | LOCK_NB)
\* and msvcrt.locking(LK_NBLCK) when no other open file holds the lock,
\* os.open(O_CREAT | O_EXCL) when the file does not exist.
SysLockSucceeds(i) ==
    IF lockKind = "AtomicOpenLock"
    THEN ~lockFile
    ELSE osLock \in {NoOwner, i}

\* an acquire() without the check of lines 41-43
AcquireCall_NoCheck(i) ==
    /\ pc' = [pc EXCEPT ![i] = "acq_try"]
    /\ first_attempt' = [first_attempt EXCEPT ![i] = TRUE]
    /\ waiting_notices' = [waiting_notices EXCEPT ![i] = 0]
    /\ UNCHANGED outcome

\* acquire() is called, lines 41-45: a locked instance raises LockError at
\* once, any other enters the loop.
AcquireCall(i) ==
    IF is_locked[i]
    THEN /\ pc' = [pc EXCEPT ![i] = "acq_raise"]
         /\ outcome' = [outcome EXCEPT ![i] = "LockError"]
         /\ UNCHANGED <<first_attempt, waiting_notices>>
    ELSE /\ pc' = [pc EXCEPT ![i] = "acq_try"]
         /\ first_attempt' = [first_attempt EXCEPT ![i] = TRUE]
         /\ waiting_notices' = [waiting_notices EXCEPT ![i] = 0]
         /\ UNCHANGED outcome

\* try_acquire() up to and including its system call.
TryAcquire(i) ==
    /\ pc[i] \in {"acq_try", "try_enter"}
    /\ LET inAcquire == pc[i] = "acq_try" IN
       IF is_locked[i]
       THEN /\ pc' = [pc EXCEPT ![i] = IF inAcquire THEN "acq_done" ELSE "try_done"]
            /\ UNCHANGED <<osLock, lockFile>>
       ELSE IF SysLockSucceeds(i)
       THEN /\ pc' = [pc EXCEPT ![i] = IF inAcquire THEN "acq_set" ELSE "try_set"]
            /\ IF lockKind = "AtomicOpenLock"
               THEN lockFile' = TRUE /\ UNCHANGED osLock
               ELSE osLock' = i /\ UNCHANGED lockFile
       ELSE /\ pc' = [pc EXCEPT ![i] = IF inAcquire THEN "acq_failed" ELSE "try_done"]
            /\ UNCHANGED <<osLock, lockFile>>
    /\ UNCHANGED <<lockKind, timeout_seconds, fd, is_locked, first_attempt, waiting_notices>>
    /\ UNCHANGED hookVars
    /\ UNCHANGED oracleVars

\* try_acquire()'s else branch: self._is_locked = True (and self._fd = fd).
SetLocked(i) ==
    /\ pc[i] \in {"acq_set", "try_set"}
    /\ is_locked' = [is_locked EXCEPT ![i] = TRUE]
    /\ fd' = IF lockKind = "AtomicOpenLock" THEN [fd EXCEPT ![i] = TRUE] ELSE fd
    /\ pc' = [pc EXCEPT ![i] = IF pc[i] = "acq_set" THEN "acq_done" ELSE "try_done"]
    /\ UNCHANGED <<lockKind, timeout_seconds, osLock, lockFile, first_attempt, waiting_notices>>
    /\ UNCHANGED hookVars
    /\ UNCHANGED oracleVars

\* a notice at every failed attempt
LogWaitingNotice_EveryAttempt(i) ==
    waiting_notices' = [waiting_notices EXCEPT ![i] = @ + 1]

\* acquire(), lines 50-52: the waiting notice, logged when first_attempt is
\* still set.
LogWaitingNotice(i) ==
    waiting_notices' = [waiting_notices EXCEPT ![i] = IF first_attempt[i] THEN @ + 1 ELSE @]

\* acquire(), lines 50-61 when the timeout has not elapsed: log the waiting
\* notice on the first failed attempt, sleep and try again.
AcquireSleep(i) ==
    /\ pc[i] = "acq_failed"
    /\ LogWaitingNotice(i)
    /\ first_attempt' = [first_attempt EXCEPT ![i] = FALSE]
    /\ pc' = [pc EXCEPT ![i] = "acq_try"]
    /\ UNCHANGED <<lockKind, timeout_seconds, osLock, lockFile, fd, is_locked>>
    /\ UNCHANGED hookVars
    /\ UNCHANGED oracleVars

\* a timeout that is swallowed: acquire() returns as if it had the lock
AcquireTimeout_Proceeds(i) ==
    /\ pc[i] = "acq_failed"
    /\ timeout_seconds # "None"
    /\ LogWaitingNotice(i)
    /\ first_attempt' = [first_attempt EXCEPT ![i] = FALSE]
    /\ pc' = [pc EXCEPT ![i] = "acq_done"]
    /\ outcome' = [outcome EXCEPT ![i] = "TimeoutError"]
    /\ UNCHANGED <<lockKind, timeout_seconds, osLock, lockFile, fd, is_locked>>
    /\ UNCHANGED <<importing, force_rebuild, settings, result, cache_calls,
                   fs, build_status, now, builds, focus>>
    /\ UNCHANGED oracleVars

\* acquire(), lines 54-59: the configured timeout has elapsed.
AcquireTimeout(i) ==
    /\ pc[i] = "acq_failed"
    /\ timeout_seconds # "None"
    /\ LogWaitingNotice(i)
    /\ first_attempt' = [first_attempt EXCEPT ![i] = FALSE]
    /\ pc' = [pc EXCEPT ![i] = "acq_raise"]
    /\ outcome' = [outcome EXCEPT ![i] = "TimeoutError"]
    /\ UNCHANGED <<lockKind, timeout_seconds, osLock, lockFile, fd, is_locked>>
    /\ UNCHANGED <<importing, force_rebuild, settings, result, cache_calls,
                   fs, build_status, now, builds, focus>>
    /\ UNCHANGED oracleVars

\* a release() that returns with the lock still taken
ReleaseEnter_KeepsLock(i) ==
    /\ pc[i] = "rel_enter"
    /\ pc' = [pc EXCEPT ![i] = "rel_done"]
    /\ UNCHANGED lockVars
    /\ UNCHANGED hookVars
    /\ UNCHANGED oracleVars

\* release() up to and including its first effect outside the instance.
\*   FcntlFileLock / WindowsFileLock: the unlock call, the flag is cleared next.
\*   AtomicOpenLock: os.close, self._fd = None, self._is_locked = False;
\*   the unlink comes next.
ReleaseEnter(i) ==
    /\ pc[i] = "rel_enter"
    /\ IF ~is_locked[i]
       THEN /\ pc' = [pc EXCEPT ![i] = "rel_done"]
            /\ UNCHANGED <<osLock, fd, is_locked>>
       ELSE IF lockKind = "AtomicOpenLock"
       THEN /\ fd' = [fd EXCEPT ![i] = FALSE]
            /\ is_locked' = [is_locked EXCEPT ![i] = FALSE]
            /\ pc' = [pc EXCEPT ![i] = "rel_unlink"]
            /\ UNCHANGED osLock
       ELSE /\ osLock' = IF osLock = i THEN NoOwner ELSE osLock
            /\ pc' = [pc EXCEPT ![i] = "rel_set"]
            /\ UNCHANGED <<fd, is_locked>>
    /\ UNCHANGED <<lockKind, timeout_seconds, lockFile, first_attempt, waiting_notices>>
    /\ UNCHANGED hookVars
    /\ UNCHANGED oracleVars

\* a release() that forgets to clear the flag
ReleaseClearFlag_KeepsFlag(i) ==
    /\ pc[i] = "rel_set"
    /\ pc' = [pc EXCEPT ![i] = "rel_done"]
    /\ UNCHANGED <<lockKind, timeout_seconds, osLock, lockFile, fd, is_locked, first_attempt, waiting_notices>>
    /\ UNCHANGED hookVars
    /\ UNCHANGED oracleVars

\* FcntlFileLock.release line 128 / WindowsFileLock.release line 153.
ReleaseClearFlag(i) ==
    /\ pc[i] = "rel_set"
    /\ is_locked' = [is_locked EXCEPT ![i] = FALSE]
    /\ pc' = [pc EXCEPT ![i] = "rel_done"]
    /\ UNCHANGED <<lockKind, timeout_seconds, osLock, lockFile, fd, first_attempt, waiting_notices>>
    /\ UNCHANGED hookVars
    /\ UNCHANGED oracleVars

\* AtomicOpenLock.release line 192: self._path.unlink(missing_ok=True).
ReleaseUnlink(i) ==
    /\ pc[i] = "rel_unlink"
    /\ lockFile' = FALSE
    /\ pc' = [pc EXCEPT ![i] = "rel_done"]
    /\ UNCHANGED <<lockKind, timeout_seconds, osLock, fd, is_locked, first_attempt, waiting_notices>>
    /\ UNCHANGED hookVars
    /\ UNCHANGED oracleVars

LockStep(i) ==
    \/ TryAcquire(i)
    \/ SetLocked(i)
    \/ AcquireSleep(i)
    \/ AcquireTimeout(i)
    \/ ReleaseEnter(i)
    \/ ReleaseClearFlag(i)
    \/ ReleaseUnlink(i)


(***************************************************************************)
(* MaturinSettings (maturin/import_hook/settings.py).                      *)
(* Optional fields hold NoneStr / NoneInt / <<NoneStr>> for None; color is *)
(* "None", "True" or "False"; config is the sequence of its (key, value)   *)
(* items in insertion order.                                               *)
(***************************************************************************)
NoneList == <<NoneStr>>
NoneConfig == << <<NoneStr, NoneStr>> >>

MaturinSettings ==
    [release |-> FALSE, strip |-> FALSE, quiet |-> FALSE, jobs |-> NoneInt,
     profile |-> NoneStr, features |-> NoneList, all_features |-> FALSE,
     no_default_features |-> FALSE, target |-> NoneStr,
     ignore_rust_version |-> FALSE, color |-> "None", frozen |-> FALSE,
     locked |-> FALSE, offline |-> FALSE, config |-> NoneConfig,
     unstable_flags |-> NoneList, verbose |-> 0, rustc_flags |-> NoneList]

\* MaturinSettings.default()
DefaultSettings == [MaturinSettings EXCEPT !.color = "True"]

\* str(n) for the job counts the model uses
Str(n) == CASE n = 0 -> "0" [] n = 1 -> "1" [] n = 2 -> "2" [] n = 3 -> "3"
            [] n = 4 -> "4" [] OTHER -> "8"

RECURSIVE Join(_, _)
\* sep.join(list)
Join(sep, list) ==
    IF Len(list) = 0 THEN ""
    ELSE IF Len(list) = 1 THEN list[1]
    ELSE list[1] \o sep \o Join(sep, Tail(list))

RECURSIVE Repeat(_, _)
\* s * n
Repeat(str, n) == IF n <= 0 THEN "" ELSE str \o Repeat(str, n - 1)

RECURSIVE FlagEach(_, _)
\* for x in list: args.append(flag); args.append(x)
FlagEach(flag, list) ==
    IF Len(list) = 0 THEN <<>>
    ELSE <<flag, list[1]>> \o FlagEach(flag, Tail(list))

RECURSIVE ConfigItems(_)
\* [f"{key}={value}" for key, value in config.items()]
ConfigItems(items) ==
    IF Len(items) = 0 THEN <<>>
    ELSE <<items[1][1] \o "=" \o items[1][2]>> \o ConfigItems(Tail(items))

\* MaturinSettings.to_args()
to_args(st) ==
    (IF st.release THEN <<"--release">> ELSE <<>>)
    \o (IF st.strip THEN <<"--strip">> ELSE <<>>)
    \o (IF st.quiet THEN <<"--quiet">> ELSE <<>>)
    \o (IF st.jobs # NoneInt THEN <<"--jobs", Str(st.jobs)>> ELSE <<>>)
    \o (IF st.profile # NoneStr THEN <<"--profile", st.profile>> ELSE <<>>)
    \o (IF st.features # NoneList /\ Len(st.features) > 0
        THEN <<"--features", Join(",", st.features)>> ELSE <<>>)
    \o (IF st.all_features THEN <<"--all-features">> ELSE <<>>)
    \o (IF st.no_default_features THEN <<"--no-default-features">> ELSE <<>>)
    \o (IF st.target # NoneStr THEN <<"--target", st.target>> ELSE <<>>)
    \o (IF st.ignore_rust_version THEN <<"--ignore-rust-version">> ELSE <<>>)
    \o (IF st.color # "None"
        THEN <<"--color", IF st.color = "True" THEN "always" ELSE "never">>
        ELSE <<>>)
    \o (IF st.frozen THEN <<"--frozen">> ELSE <<>>)
    \o (IF st.locked THEN <<"--locked">> ELSE <<>>)
    \o (IF st.offline THEN <<"--offline">> ELSE <<>>)
    \o (IF st.config # NoneConfig THEN FlagEach("--config", ConfigItems(st.config)) ELSE <<>>)
    \o (IF st.unstable_flags # NoneList THEN FlagEach("-Z", st.unstable_flags) ELSE <<>>)
    \o (IF st.verbose > 0 THEN <<"-" \o Repeat("v", st.verbose)>> ELSE <<>>)
    \o (IF st.rustc_flags # NoneList THEN st.rustc_flags ELSE <<>>)

\* MaturinBuildSettings(), MaturinDevelopSettings(): the subclasses add fields
MaturinBuildSettings == MaturinSettings @@ [skip_auditwheel |-> FALSE, zig |-> FALSE]
MaturinDevelopSettings == MaturinSettings @@ [extras |-> NoneList, skip_install |-> FALSE]

\* MaturinBuildSettings.to_args()
build_to_args(st) ==
    (IF st.skip_auditwheel THEN <<"--skip-auditwheel">> ELSE <<>>)
    \o (IF st.zig THEN <<"--zig">> ELSE <<>>)
    \o to_args(st)

\* a to_args() that always passes --skip-install
develop_to_args_AlwaysSkipInstall(st) ==
    (IF st.extras # NoneList THEN <<"--extras", Join(",", st.extras)>> ELSE <<>>)
    \o <<"--skip-install">>
    \o to_args(st)

\* MaturinDevelopSettings.to_args()
develop_to_args(st) ==
    (IF st.extras # NoneList THEN <<"--extras", Join(",", st.extras)>> ELSE <<>>)
    \o (IF st.skip_install THEN <<"--skip-install">> ELSE <<>>)
    \o to_args(st)

\* settings.to_args() with the method of the object's class
ToArgsOf(st) ==
    IF "zig" \in DOMAIN st THEN build_to_args(st)
    ELSE IF "extras" \in DOMAIN st THEN develop_to_args(st)
    ELSE to_args(st)

\* dict(items): the mapping a dict with these items, inserted in this order, is
DictOf(items) == {<<items[k][1], items[k][2]>> : k \in 1..Len(items)}

\* the == of the dataclasses: same class and equal fields.  Lists are equal
\* when they have the same elements in the same order, dicts when they map
\* the same keys to the same values, in whatever order they were filled.
SettingsEq(a, b) ==
    /\ DOMAIN a = DOMAIN b
    /\ \A f \in DOMAIN a \ {"config"} : a[f] = b[f]
    /\ (a.config = NoneConfig) = (b.config = NoneConfig)
    /\ a.config # NoneConfig => DictOf(a.config) = DictOf(b.config)

\* The settings the finders of the model are installed with: the defaults and
\* the settings of tests/import_hook/rust_file_import/rebuild_on_settings_change_helper.py
LargeNumberSettings ==
    [MaturinSettings EXCEPT !.features = <<"pyo3/extension-module", "large_number">>]
SettingsChoices == {DefaultSettings, LargeNumberSettings}


(***************************************************************************)
(* The sources of the model: one maturin project with a path dependency,   *)
(* found by the project finder, and one .rs file, found by the rust file   *)
(* finder.  The project is a mixed project: `maturin develop` installs a   *)
(* .pth file into site-packages and writes the extension module into the   *)
(* python package inside the project directory.                            *)
(***************************************************************************)
ProjectModule == "pyo3_mixed"
RustFileModule == "my_script"
Sources == {ProjectModule, RustFileModule}

ProjectDir == "/ws/pyo3_mixed"
DepDir == "/ws/some_path_dep"
ScriptDir == "/ws/scripts"
SitePackages == "/venv/site-packages"
BuildDir == "/venv/maturin_build_cache"

\* the cache key of a source: project_dir of _rebuild_project,
\* file_path of _import_rust_file
SourcePath(s) ==
    IF s = ProjectModule THEN Path(ProjectDir) ELSE Path(ScriptDir \o "/my_script.rs")

\* hashlib.sha1(bytes(path)).hexdigest(); collisions are not modelled
Sha1(path) == "sha1(" \o StrOfPath(path) \o ")"

\* LockedBuildCache.tmp_project_dir
tmp_project_dir(project_path, module_name) ==
    BuildDir \o "/project/" \o module_name \o "_" \o Sha1(project_path)

\* The files of the model: the directory given to the directory walk (root),
\* the directories below it (dirs) and whether it is written by a build.
FileInfo ==
    [lib_rs   |-> [root |-> ProjectDir, dirs |-> <<"src">>],
     dep_rs   |-> [root |-> DepDir, dirs |-> <<"src">>],
     target_d |-> [root |-> ProjectDir, dirs |-> <<"target", "debug">>],
     dep_target_d |-> [root |-> DepDir, dirs |-> <<"target", "debug">>],
     pycache  |-> [root |-> ProjectDir, dirs |-> <<"pyo3_mixed", "__pycache__">>],
     ext_so   |-> [root |-> ProjectDir, dirs |-> <<"pyo3_mixed">>],
     pth      |-> [root |-> SitePackages, dirs |-> <<>>],
     script_rs |-> [root |-> ScriptDir, dirs |-> <<>>],
     script_so |-> [root |-> tmp_project_dir(SourcePath(RustFileModule), RustFileModule),
                    dirs |-> <<"dist", "my_script">>]]
Files == DOMAIN FileInfo

\* files a user edits, per source
SourceFiles(s) == IF s = ProjectModule THEN {"lib_rs", "dep_rs", "target_d"} ELSE {"script_rs"}
\* files a successful build writes, per source
ArtifactFiles(s) == IF s = ProjectModule THEN {"pth", "ext_so"} ELSE {"script_so"}

DEFAULT_EXCLUDED_DIR_NAMES ==
    {"__pycache__", "target", "dist", ".git", "venv", ".venv", ".pytest_cache"}

\* a project mtime that leaves out the path dependencies
NoPathDependencies == {}

\* resolved.all_path_dependencies of the project
AllPathDependencies == {DepDir}

Exists(f) == fs[f] # NoMtime

RECURSIVE JoinPath(_, _)
\* root / dirs[1] / ... / dirs[k]
JoinPath(root, dirs) ==
    IF Len(dirs) = 0 THEN root ELSE JoinPath(root \o "/" \o dirs[1], Tail(dirs))

\* a walk that descends into every directory whatever its name
GetFilesInDirs_AnyName(dir_paths, excluded_dir_names, excluded_dir_paths) ==
    {f \in Files :
        /\ Exists(f)
        /\ FileInfo[f].root \in dir_paths
        /\ \A k \in 1..Len(FileInfo[f].dirs) :
              JoinPath(FileInfo[f].root, SubSeq(FileInfo[f].dirs, 1, k))
                    \notin excluded_dir_paths}

\* _get_files_in_dirs: the files below dir_paths, not descending into a
\* directory with an excluded name or an excluded path
GetFilesInDirs(dir_paths, excluded_dir_names, excluded_dir_paths) ==
    {f \in Files :
        /\ Exists(f)
        /\ FileInfo[f].root \in dir_paths
        /\ \A k \in 1..Len(FileInfo[f].dirs) :
              /\ FileInfo[f].dirs[k] \notin excluded_dir_names
              /\ JoinPath(FileInfo[f].root, SubSeq(FileInfo[f].dirs, 1, k))
                    \notin excluded_dir_paths}

\* _find_spec_for_package: PathFinder finds the package once the .pth file
\* puts the project's python directory on sys.path
FindSpecForPackage == Exists("pth")

\* _find_installed_package_root for the mixed project: _find_extension_module
\* in resolved.extension_module_dir.  "" stands for None.
FindInstalledPackageRoot == IF Exists("ext_so") THEN "ext_so" ELSE ""

\* _get_installed_package_mtime for an installed root that is a file
GetInstalledPackageMtime(root) == IF root = "" THEN NoMtime ELSE fs[root]

\* _get_project_mtime: max over the project directory and the path
\* dependencies; None (NoMtime) when there is no file
\* (the installed root of the model is a file, so excluded_dirs stays empty)
GetProjectMtime(excluded_dir_names) ==
    LET files == GetFilesInDirs({ProjectDir} \cup AllPathDependencies,
                                excluded_dir_names, {})
    IN IF files = {} THEN NoMtime ELSE SetMax({fs[f] : f \in files})

\* _find_extension_module(dist_dir / module_name, module_name) of the rust file finder
FindExtensionModule == IF Exists("script_so") THEN "script_so" ELSE ""

(***************************************************************************)
(* BuildStatus and LockedBuildCache (maturin/import_hook/_building.py).    *)
(* A record file holds a JSON object, modelled as a function from keys;    *)
(* NoFile stands for a file that does not exist.                           *)
(* A file that is no JSON holds [text |-> ...], a JSON document that is no   *)
(* object holds [list |-> ...].  A call that raises returns Raised(exc).   *)
(***************************************************************************)
NoFile == [absent |-> TRUE]
StatusKeys == {"build_mtime", "source_path", "maturin_args", "maturin_output"}
\* what the record file of a source path holds after damage from outside
Damaged == [damaged |-> TRUE]

\* the exception a call ends with
Raised(exc) == [raised |-> exc]
HasRaised(value) == "raised" \in DOMAIN value

\* json.load(f)
json_load(content) ==
    IF "text" \in DOMAIN content THEN Raised("JSONDecodeError") ELSE content

\* a record written without the output of the build
to_json_NoOutput(st) ==
    [build_mtime |-> st.build_mtime, source_path |-> StrOfPath(st.source_path),
     maturin_args |-> st.maturin_args, maturin_output |-> ""]

\* BuildStatus.to_json
to_json(st) ==
    [build_mtime |-> st.build_mtime, source_path |-> StrOfPath(st.source_path),
     maturin_args |-> st.maturin_args, maturin_output |-> st.maturin_output]

\* BuildStatus.from_json: None when a key is missing (KeyError); subscripting
\* a document that is no object with a string raises TypeError
from_json(json) ==
    IF "list" \in DOMAIN json THEN Raised("TypeError")
    ELSE IF StatusKeys \subseteq DOMAIN json
    THEN [build_mtime |-> json.build_mtime, source_path |-> Path(json.source_path),
          maturin_args |-> json.maturin_args, maturin_output |-> json.maturin_output]
    ELSE NoStatus

\* LockedBuildCache._build_status_path
BuildStatusPath(source_path) == BuildDir \o "/build_status/" \o Sha1(source_path) \o ".json"
StatusPaths == {BuildStatusPath(SourcePath(s)) : s \in Sources}

\* no call yet; written[path] is the status last stored at the path, None
\* when nothing was ever stored there
NoCacheOp == [op |-> "none", written |-> [path \in StatusPaths |-> NoStatus]]

\* LockedBuildCache.get_build_status on the cache directory `files`
\* (only FileNotFoundError is caught)
get_build_status(files, source_path) ==
    IF files[BuildStatusPath(source_path)] = NoFile
    THEN NoStatus
    ELSE LET json == json_load(files[BuildStatusPath(source_path)])
         IN IF HasRaised(json) THEN json ELSE from_json(json)

\* a store that keeps the record a source already has
store_build_status_IfAbsent(files, st) ==
    IF files[BuildStatusPath(st.source_path)] = NoFile
    THEN [files EXCEPT ![BuildStatusPath(st.source_path)] = to_json(st)]
    ELSE files

\* LockedBuildCache.store_build_status: the cache directory afterwards
store_build_status(files, st) ==
    [files EXCEPT ![BuildStatusPath(st.source_path)] = to_json(st)]


(***************************************************************************)
(* The freshness checks.  Both take the values the code reads on its way   *)
(* and return what the code returns, a spec or a reason, together with the *)
(* number of checks the code evaluated before it returned.                 *)
(***************************************************************************)
Stale(reason, steps) == [spec |-> FALSE, reason |-> reason, steps |-> steps]
Fresh(steps) == [spec |-> TRUE, reason |-> NoneStr, steps |-> steps]
NoResult == [spec |-> FALSE, reason |-> NoneStr, steps |-> 0]

\* an installed package that is up to date only when it is newer
PackageIsNewer(project_mtime, installed_package_mtime) ==
    IF project_mtime = NoMtime THEN FALSE
    ELSE installed_package_mtime > project_mtime

\* _package_is_up_to_date
PackageIsUpToDate(project_mtime, installed_package_mtime) ==
    IF project_mtime = NoMtime THEN FALSE
    ELSE installed_package_mtime >= project_mtime

\* MaturinProjectImporter._get_spec_for_up_to_date_package
GetSpecForUpToDatePackage(in) ==
    IF in.force_rebuild THEN Stale("forcing rebuild", 1)
    ELSE IF ~in.spec_found THEN Stale("package not already installed", 2)
    ELSE IF in.installed_package_root = ""
        THEN Stale("could not find installed package root", 3)
    ELSE IF in.installed_package_mtime = NoMtime
        THEN Stale("could not get installed package mtime", 4)
    ELSE IF ~PackageIsUpToDate(in.project_mtime, in.installed_package_mtime)
        THEN Stale("package is out of date", 5)
    ELSE IF in.build_status = NoStatus THEN Stale("no build status found", 6)
    ELSE IF in.build_status.source_path # in.source_path
        THEN Stale("source path in build status does not match the project dir", 7)
    ELSE IF ~IsClose(in.build_status.build_mtime, in.installed_package_mtime)
        THEN Stale("installed package mtime does not match build status mtime", 8)
    ELSE IF in.build_status.maturin_args # in.maturin_args
        THEN Stale("current maturin args do not match the previous build", 9)
    ELSE Fresh(9)

\* a check that looks at the build status before the mtimes
GetSpecForUpToDateExtensionModule_StatusFirst(in) ==
    IF in.force_rebuild THEN Stale("forcing rebuild", 1)
    ELSE IF in.installed_package_root = ""
        THEN Stale("already built module not found", 2)
    ELSE IF in.build_status = NoStatus THEN Stale("no build status found", 4)
    ELSE IF in.installed_package_mtime < in.project_mtime
        THEN Stale("module is out of date", 3)
    ELSE IF in.build_status.source_path # in.source_path
        THEN Stale("source path in build status does not match the project dir", 5)
    ELSE IF ~IsClose(in.build_status.build_mtime, in.installed_package_mtime)
        THEN Stale("installed package mtime does not match build status mtime", 6)
    ELSE IF in.build_status.maturin_args # in.maturin_args
        THEN Stale("current maturin args do not match the previous build", 7)
    ELSE IF ~in.spec_found THEN Stale("module not found", 8)
    ELSE Fresh(8)

\* MaturinRustFileImporter._get_spec_for_up_to_date_extension_module
GetSpecForUpToDateExtensionModule(in) ==
    IF in.force_rebuild THEN Stale("forcing rebuild", 1)
    ELSE IF in.installed_package_root = ""
        THEN Stale("already built module not found", 2)
    ELSE IF in.installed_package_mtime < in.project_mtime
        THEN Stale("module is out of date", 3)
    ELSE IF in.build_status = NoStatus THEN Stale("no build status found", 4)
    ELSE IF in.build_status.source_path # in.source_path
        THEN Stale("source path in build status does not match the project dir", 5)
    ELSE IF ~IsClose(in.build_status.build_mtime, in.installed_package_mtime)
        THEN Stale("installed package mtime does not match build status mtime", 6)
    ELSE IF in.build_status.maturin_args # in.maturin_args
        THEN Stale("current maturin args do not match the previous build", 7)
    ELSE IF ~in.spec_found THEN Stale("module not found", 8)
    ELSE Fresh(8)

\* a check that takes the stored arguments for the current ones
CheckFreshness_IgnoreArgs(s, in) ==
    IF s = ProjectModule
    THEN GetSpecForUpToDatePackage([in EXCEPT !.maturin_args = in.build_status.maturin_args])
    ELSE GetSpecForUpToDateExtensionModule(
             [in EXCEPT !.maturin_args = in.build_status.maturin_args])

\* the check of the finder that handles source s
CheckFreshness(s, in) ==
    IF s = ProjectModule THEN GetSpecForUpToDatePackage(in)
    ELSE GetSpecForUpToDateExtensionModule(in)

\* The values a freshness check of source s reads in the current state, for
\* a finder with force_rebuild = force whose get_settings returns st.
\*   project finder: the calls of lines 240-270 of project_importer.py
\*   rust file finder: the calls of lines 206-226 of rust_file_importer.py
\*   (spec_from_loader returns a spec for every loader)
CheckInputs(s, force, st) ==
    IF s = ProjectModule
    THEN [force_rebuild |-> force,
          spec_found |-> FindSpecForPackage,
          installed_package_root |-> FindInstalledPackageRoot,
          installed_package_mtime |-> GetInstalledPackageMtime(FindInstalledPackageRoot),
          project_mtime |-> GetProjectMtime(DEFAULT_EXCLUDED_DIR_NAMES),
          build_status |-> get_build_status(build_status, SourcePath(s)),
          source_path |-> SourcePath(s),
          maturin_args |-> to_args(st)]
    ELSE [force_rebuild |-> force,
          spec_found |-> TRUE,
          installed_package_root |-> FindExtensionModule,
          installed_package_mtime |-> GetInstalledPackageMtime(FindExtensionModule),
          project_mtime |-> fs["script_rs"],
          build_status |-> get_build_status(build_status, SourcePath(s)),
          source_path |-> SourcePath(s),
          maturin_args |-> to_args(st)]

\* the number of checks after which the check has read the build-status record
StatusReadStep(s) == IF s = ProjectModule THEN 6 ELSE 4


(***************************************************************************)
(* The finders.  Positions of a process outside the lock methods:          *)
(*   idle       no find_spec is running                                    *)
(*   acq_done   inside `with self._build_cache.lock()`, before the check   *)
(*   build      the check said stale, the build tool is about to be run    *)
(*   in_build   the build tool is running                                  *)
(*   post       the build tool exited with status 0                        *)
(*   rel_done / acq_raise   find_spec is about to return or raise          *)
(* A process stands for an interpreter that imports one module; when its   *)
(* find_spec has ended, the next interpreter takes its place.              *)
(***************************************************************************)
NoModule == "<no module>"
NoCalls == [calls |-> {}, locked |-> TRUE]

\* output of a build that succeeds
BuildOutput == "Finished dev [unoptimized + debuginfo] target(s)"

\* how a run of the build tool can end:
\*   ok         exit status 0, the module is installed where the finder looks
\*   failed     non-zero exit status
\*   misplaced  exit status 0, but the extension module is not where the
\*              finder looks for it
BuildResults == {"ok", "failed", "misplaced"}

\* a call of LockedBuildCache methods by process p
CacheCall(p, names) ==
    [calls |-> cache_calls[p].calls \cup names,
     locked |-> cache_calls[p].locked /\ (names = {} \/ is_locked[p])]

\* a `with` block that is entered before the lock is taken
AcquireReturned_NoLock(p) == pc[p] \in {"acq_try", "acq_done"}

\* acquire() returned: the `with` block of BuildCache.lock() is entered
AcquireReturned(p) == pc[p] = "acq_done"

\* find_spec up to the `with self._build_cache.lock()` of
\* _rebuild_project / _import_rust_file and the call of acquire(); get_settings
\* will return st
StartImport(p, s, st) ==
    /\ pc[p] = "idle"
    /\ importing' = [importing EXCEPT ![p] = s]
    /\ settings' = [settings EXCEPT ![p] = st]
    /\ AcquireCall(p)
    /\ UNCHANGED <<force_rebuild, result, cache_calls, fs, build_status, now, builds, focus>>
    /\ UNCHANGED <<lockKind, timeout_seconds, osLock, lockFile, fd, is_locked>>
    /\ UNCHANGED oracleVars

\* _rebuild_project lines 177-185 / _import_rust_file lines 135-146:
\* tmp_project_dir (rust file finder), get_settings and the freshness check
CheckUpToDate(p) ==
    /\ AcquireReturned(p)
    /\ importing[p] # NoModule
    /\ LET s == importing[p]
           r == CheckFreshness(s, CheckInputs(s, force_rebuild, settings[p]))
           names == (IF s = RustFileModule THEN {"tmp_project_dir"} ELSE {})
                    \cup (IF r.steps >= StatusReadStep(s) THEN {"get_build_status"} ELSE {})
       IN /\ result' = [result EXCEPT ![p] = r]
          /\ cache_calls' = [cache_calls EXCEPT ![p] = CacheCall(p, names)]
          /\ IF r.spec
             THEN /\ outcome' = [outcome EXCEPT ![p] = "fresh"]
                  /\ pc' = [pc EXCEPT ![p] = "rel_enter"]
             ELSE /\ pc' = [pc EXCEPT ![p] = "build"]
                  /\ UNCHANGED outcome
    /\ UNCHANGED <<importing, force_rebuild, settings, fs, build_status, now, builds, focus>>
    /\ UNCHANGED lockVars
    /\ UNCHANGED oracleVars

\* develop_build_project / generate_project_for_single_rust_file and
\* build_unpacked_wheel: the build tool starts.  build_unpacked_wheel removes
\* the output directory of the previous build first.
BuildStart(p) ==
    /\ pc[p] = "build"
    /\ builds[importing[p]] < MaxBuilds
    /\ builds' = [builds EXCEPT ![importing[p]] = @ + 1]
    /\ fs' = IF importing[p] = RustFileModule
             THEN [fs EXCEPT !["script_so"] = NoMtime] ELSE fs
    /\ pc' = [pc EXCEPT ![p] = "in_build"]
    /\ UNCHANGED <<importing, force_rebuild, settings, result, cache_calls, outcome,
                   build_status, now, focus>>
    /\ UNCHANGED lockVars
    /\ UNCHANGED oracleVars

\* the files the build tool has written when it exits
FilesWritten(s, res) ==
    IF res = "ok" THEN ArtifactFiles(s)
    ELSE IF res = "misplaced" /\ s = ProjectModule THEN {"pth"}
    ELSE {}

\* a finder that runs the build tool again when it has failed
BuildEnd_Retries(p, res) ==
    /\ pc[p] = "in_build"
    /\ fs' = [f \in Files |->
                IF f \in FilesWritten(importing[p], res) THEN Epoch + now ELSE fs[f]]
    /\ pc' = [pc EXCEPT ![p] = IF res = "failed" THEN "build" ELSE "post"]
    /\ UNCHANGED <<importing, force_rebuild, settings, result, cache_calls, outcome,
                   build_status, now, builds, focus>>
    /\ UNCHANGED lockVars
    /\ UNCHANGED oracleVars

\* _run_maturin returns: the build tool exits
BuildEnd(p, res) ==
    /\ pc[p] = "in_build"
    /\ fs' = [f \in Files |->
                IF f \in FilesWritten(importing[p], res) THEN Epoch + now ELSE fs[f]]
    /\ IF res = "failed"
       THEN /\ outcome' = [outcome EXCEPT ![p] = "build_failed"]
            /\ pc' = [pc EXCEPT ![p] = "rel_enter"]
       ELSE /\ pc' = [pc EXCEPT ![p] = "post"]
            /\ UNCHANGED outcome
    /\ UNCHANGED <<importing, force_rebuild, settings, result, cache_calls,
                   build_status, now, builds, focus>>
    /\ UNCHANGED lockVars
    /\ UNCHANGED oracleVars

\* a record that leaves out the arguments of the build
NewBuildStatus_NoArgs(s, mtime, st) ==
    [build_mtime |-> mtime, source_path |-> SourcePath(s),
     maturin_args |-> <<>>, maturin_output |-> BuildOutput]

\* the BuildStatus the finder builds after a build of source s
\* (project_importer.py lines 217-219, rust_file_importer.py lines 178-183)
NewBuildStatus(s, mtime, st) ==
    [build_mtime |-> mtime, source_path |-> SourcePath(s),
     maturin_args |-> to_args(st), maturin_output |-> BuildOutput]

\* a finder that stores a record whether or not it could measure the
\* installed package
PostBuild_AlwaysStores(p) ==
    /\ pc[p] = "post"
    /\ LET s == importing[p]
           root == IF s = ProjectModule THEN FindInstalledPackageRoot
                   ELSE FindExtensionModule
       IN /\ outcome' = [outcome EXCEPT ![p] = "built"]
          /\ build_status' = store_build_status(build_status,
                                 NewBuildStatus(s, GetInstalledPackageMtime(root),
                                                settings[p]))
          /\ cache_calls' = [cache_calls EXCEPT ![p] =
                                 CacheCall(p, {"store_build_status"})]
    /\ pc' = [pc EXCEPT ![p] = "rel_enter"]
    /\ UNCHANGED <<importing, force_rebuild, settings, result, fs, now, builds, focus>>
    /\ UNCHANGED lockVars
    /\ UNCHANGED oracleVars

\* _rebuild_project lines 202-222 / _import_rust_file lines 170-188: find the
\* built module and store the build status
PostBuild(p) ==
    /\ pc[p] = "post"
    /\ LET s == importing[p]
           found == IF s = ProjectModule THEN FindSpecForPackage
                    ELSE FindExtensionModule # ""
           root == IF s = ProjectModule THEN FindInstalledPackageRoot
                   ELSE FindExtensionModule
           mtime == GetInstalledPackageMtime(root)
       IN IF ~found
          THEN /\ outcome' = [outcome EXCEPT ![p] = "load_failed"]
               /\ UNCHANGED <<build_status, cache_calls>>
          ELSE /\ outcome' = [outcome EXCEPT ![p] = "built"]
               /\ IF root = "" \/ mtime = NoMtime
                  THEN UNCHANGED <<build_status, cache_calls>>
                  ELSE /\ build_status' = store_build_status(build_status,
                                              NewBuildStatus(s, mtime, settings[p]))
                       /\ cache_calls' = [cache_calls EXCEPT ![p] =
                                              CacheCall(p, {"store_build_status"})]
    /\ pc' = [pc EXCEPT ![p] = "rel_enter"]
    /\ UNCHANGED <<importing, force_rebuild, settings, result, fs, now, builds, focus>>
    /\ UNCHANGED lockVars
    /\ UNCHANGED oracleVars

\* find_spec returns a spec or raises
Finish(p) ==
    /\ pc[p] \in {"rel_done", "acq_raise"}
    /\ importing[p] # NoModule
    /\ importing' = [importing EXCEPT ![p] = NoModule]
    /\ settings' = [settings EXCEPT ![p] = MaturinSettings]
    /\ result' = [result EXCEPT ![p] = NoResult]
    /\ cache_calls' = [cache_calls EXCEPT ![p] = NoCalls]
    /\ outcome' = [outcome EXCEPT ![p] = "none"]
    /\ first_attempt' = [first_attempt EXCEPT ![p] = TRUE]
    /\ waiting_notices' = [waiting_notices EXCEPT ![p] = 0]
    /\ pc' = [pc EXCEPT ![p] = "idle"]
    /\ UNCHANGED <<force_rebuild, fs, build_status, now, builds, focus>>
    /\ UNCHANGED <<lockKind, timeout_seconds, osLock, lockFile, fd, is_locked>>
    /\ UNCHANGED oracleVars

(***************************************************************************)
(* The environment: the user edits a file or installs the project without  *)
(* the hook (pip install -e / maturin develop).  Time passes with these    *)
(* events: each takes place one second after the previous one, a build     *)
(* writes its files in the second of the latest event.                     *)
(***************************************************************************)

\* a second later the user saves source file f
Touch(f) ==
    /\ now < MaxClock
    /\ now' = now + 1
    /\ fs' = [fs EXCEPT ![f] = Epoch + now']
    /\ UNCHANGED <<pc, importing, force_rebuild, settings, result, cache_calls, outcome,
                   build_status, builds, focus>>
    /\ UNCHANGED lockVars
    /\ UNCHANGED oracleVars

\* a second later the user installs the project without the hook
ExternalInstall ==
    /\ now < MaxClock
    /\ now' = now + 1
    /\ fs' = [f \in Files |-> IF f \in ArtifactFiles(ProjectModule) THEN Epoch + now' ELSE fs[f]]
    /\ UNCHANGED <<pc, importing, force_rebuild, settings, result, cache_calls, outcome,
                   build_status, builds, focus>>
    /\ UNCHANGED lockVars
    /\ UNCHANGED oracleVars

(***************************************************************************)
(* Spec: processes importing one source (either the project or the rust    *)
(* file) through one build cache directory while the user edits it.        *)
(***************************************************************************)
NoOracleInput ==
    [finder |-> ProjectModule, force_rebuild |-> FALSE, spec_found |-> FALSE,
     installed_package_root |-> "", installed_package_mtime |-> NoMtime,
     project_mtime |-> NoMtime, build_status |-> NoStatus,
     source_path |-> SourcePath(ProjectModule),
     maturin_args |-> <<>>]

\* the lock of a build cache: whatever FileLock.new picks on the platform,
\* with the default lock_timeout_seconds = 120
HookLockInit ==
    /\ lockKind \in {FileLockNew(pf.os_name, pf.has_fcntl, pf.platform_lower) : pf \in Platforms}
    /\ timeout_seconds = "finite"
    /\ osLock = NoOwner
    /\ lockFile = (lockKind # "AtomicOpenLock")
    /\ fd = [i \in Procs |-> FALSE]
    /\ is_locked = [i \in Procs |-> FALSE]
    /\ first_attempt = [i \in Procs |-> TRUE]
    /\ waiting_notices = [i \in Procs |-> 0]

HookInit ==
    /\ pc = [p \in Procs |-> "idle"]
    /\ importing = [p \in Procs |-> NoModule]
    /\ force_rebuild \in BOOLEAN
    /\ settings = [p \in Procs |-> MaturinSettings]
    /\ result = [p \in Procs |-> NoResult]
    /\ cache_calls = [p \in Procs |-> NoCalls]
    /\ outcome = [p \in Procs |-> "none"]
    /\ fs = [f \in Files |-> IF f \in UNION {SourceFiles(s) : s \in Sources}
                             THEN Epoch ELSE NoMtime]
    /\ build_status = [path \in StatusPaths |-> NoFile]
    /\ now = 0
    /\ builds = [s \in Sources |-> 0]
    /\ focus \in Sources

Init ==
    /\ HookLockInit
    /\ HookInit
    /\ oin = NoOracleInput
    /\ oout = NoResult
    /\ cache_op = NoCacheOp

\* the attempts of Spec are successive: an interpreter starts its import when
\* the previous one has ended
Successive == \A q \in Procs : pc[q] = "idle"

Next ==
    \/ \E p \in Procs, st \in SettingsChoices : Successive /\ StartImport(p, focus, st)
    \/ \E p \in Procs : TryAcquire(p)
    \/ \E p \in Procs : SetLocked(p)
    \/ \E p \in Procs : CheckUpToDate(p)
    \/ \E p \in Procs : BuildStart(p)
    \/ \E p \in Procs, res \in BuildResults : BuildEnd(p, res)
    \/ \E p \in Procs : PostBuild(p)
    \/ \E p \in Procs : ReleaseEnter(p)
    \/ \E p \in Procs : ReleaseClearFlag(p)
    \/ \E p \in Procs : ReleaseUnlink(p)
    \/ \E p \in Procs : Finish(p)
    \/ \E f \in SourceFiles(focus) : Touch(f)
    \/ focus = ProjectModule /\ ExternalInstall

Spec == Init /\ [][Next]_vars

(***************************************************************************)
(* SpecRace: interpreters import concurrently through one build cache      *)
(* directory.  Nobody edits a file, the build tool succeeds, force_rebuild *)
(* is unset and all imports of a source use the same settings.             *)
(***************************************************************************)

\* every import of source s so far ran with settings st
SameSettings(s, st) ==
    /\ \A q \in Procs : importing[q] = s => settings[q] = st
    /\ LET stored == get_build_status(build_status, SourcePath(s))
       IN stored # NoStatus => stored.maturin_args = to_args(st)

\* (nobody edits a source in SpecRace, so focus plays no part)
RaceInit ==
    /\ Init
    /\ ~force_rebuild
    /\ focus = ProjectModule

RaceNext ==
    \/ \E p \in Procs, s \in Sources, st \in SettingsChoices :
          SameSettings(s, st) /\ StartImport(p, s, st)
    \/ \E p \in Procs : LockStep(p)
    \/ \E p \in Procs : CheckUpToDate(p)
    \/ \E p \in Procs : BuildStart(p)
    \/ \E p \in Procs : BuildEnd(p, "ok")
    \/ \E p \in Procs : PostBuild(p)
    \/ \E p \in Procs : Finish(p)

SpecRace == RaceInit /\ [][RaceNext]_vars

(***************************************************************************)
(* SpecRaceFair: the race of the concurrent-import tests.  Every           *)
(* interpreter imports the same source once, with the same settings,       *)
(* through a build cache whose lock has no timeout; nobody edits a file    *)
(* and the build tool succeeds.  An interpreter that is inside find_spec   *)
(* keeps running, and a build that has started comes to its end.  The lock *)
(* file of an AtomicOpenLock may have been left behind by an interpreter   *)
(* that was killed while it held the lock.                                 *)
(***************************************************************************)
FairRaceInit ==
    /\ lockKind \in {FileLockNew(pf.os_name, pf.has_fcntl, pf.platform_lower) :
                        pf \in Platforms}
    /\ timeout_seconds = "None"
    /\ osLock = NoOwner
    /\ IF lockKind = "AtomicOpenLock" THEN lockFile \in BOOLEAN ELSE lockFile = TRUE
    /\ fd = [i \in Procs |-> FALSE]
    /\ is_locked = [i \in Procs |-> FALSE]
    /\ first_attempt = [i \in Procs |-> TRUE]
    /\ waiting_notices = [i \in Procs |-> 0]
    /\ HookInit
    /\ ~force_rebuild
    /\ oin = NoOracleInput
    /\ oout = NoResult
    /\ cache_op = NoCacheOp

\* the steps of interpreter p inside find_spec
ImportStep(p) ==
    \/ TryAcquire(p)
    \/ SetLocked(p)
    \/ AcquireSleep(p)
    \/ CheckUpToDate(p)
    \/ BuildStart(p)
    \/ BuildEnd(p, "ok")
    \/ PostBuild(p)
    \/ ReleaseEnter(p)
    \/ ReleaseClearFlag(p)
    \/ ReleaseUnlink(p)

FairRaceNext ==
    \/ \E p \in Procs : StartImport(p, focus, DefaultSettings)
    \/ \E p \in Procs : TryAcquire(p)
    \/ \E p \in Procs : SetLocked(p)
    \/ \E p \in Procs : AcquireSleep(p)
    \/ \E p \in Procs : CheckUpToDate(p)
    \/ \E p \in Procs : BuildStart(p)
    \/ \E p \in Procs : BuildEnd(p, "ok")
    \/ \E p \in Procs : PostBuild(p)
    \/ \E p \in Procs : ReleaseEnter(p)
    \/ \E p \in Procs : ReleaseClearFlag(p)
    \/ \E p \in Procs : ReleaseUnlink(p)

\* the operating system schedules every interpreter
RaceFairness == \A p \in Procs : WF_vars(ImportStep(p))

SpecRaceFair == FairRaceInit /\ [][FairRaceNext]_vars /\ RaceFairness

(***************************************************************************)
(* SpecLock: processes calling the methods of their lock instances, all    *)
(* created on the same path, as the tests of tests/import_hook/            *)
(* test_utilities.py do.  Every FileLock subclass, with and without a      *)
(* timeout.                                                                *)
(***************************************************************************)

\* lock.acquire()
CallAcquire(i) ==
    /\ pc[i] = "idle"
    /\ AcquireCall(i)
    /\ UNCHANGED <<lockKind, timeout_seconds, osLock, lockFile, fd, is_locked>>
    /\ UNCHANGED <<importing, force_rebuild, settings, result, cache_calls,
                   fs, build_status, now, builds, focus>>
    /\ UNCHANGED oracleVars

\* lock.try_acquire()
CallTryAcquire(i) ==
    /\ pc[i] = "idle"
    /\ pc' = [pc EXCEPT ![i] = "try_enter"]
    /\ UNCHANGED lockVars
    /\ UNCHANGED hookVars
    /\ UNCHANGED oracleVars

\* lock.release()
CallRelease(i) ==
    /\ pc[i] = "idle"
    /\ pc' = [pc EXCEPT ![i] = "rel_enter"]
    /\ UNCHANGED lockVars
    /\ UNCHANGED hookVars
    /\ UNCHANGED oracleVars

\* the method returns or raises to its caller
Return(i) ==
    /\ pc[i] \in {"acq_done", "acq_raise", "try_done", "rel_done"}
    /\ pc' = [pc EXCEPT ![i] = "idle"]
    /\ outcome' = [outcome EXCEPT ![i] = "none"]
    /\ first_attempt' = [first_attempt EXCEPT ![i] = TRUE]
    /\ waiting_notices' = [waiting_notices EXCEPT ![i] = 0]
    /\ UNCHANGED <<lockKind, timeout_seconds, osLock, lockFile, fd, is_locked>>
    /\ UNCHANGED <<importing, force_rebuild, settings, result, cache_calls,
                   fs, build_status, now, builds, focus>>
    /\ UNCHANGED oracleVars

LockInit ==
    /\ lockKind \in LockKinds
    /\ timeout_seconds \in {"None", "finite"}
    /\ osLock = NoOwner
    /\ IF lockKind = "AtomicOpenLock"
       THEN lockFile \in BOOLEAN     \* TRUE: left behind by a holder that died
       ELSE lockFile = TRUE
    /\ fd = [i \in Procs |-> FALSE]
    /\ is_locked = [i \in Procs |-> FALSE]
    /\ first_attempt = [i \in Procs |-> TRUE]
    /\ waiting_notices = [i \in Procs |-> 0]
    /\ HookInit
    /\ ~force_rebuild
    /\ focus = ProjectModule
    /\ oin = NoOracleInput
    /\ oout = NoResult
    /\ cache_op = NoCacheOp

LockNext ==
    \/ \E i \in Procs : CallAcquire(i)
    \/ \E i \in Procs : CallTryAcquire(i)
    \/ \E i \in Procs : CallRelease(i)
    \/ \E i \in Procs : LockStep(i)
    \/ \E i \in Procs : Return(i)

SpecLock == LockInit /\ [][LockNext]_vars

(***************************************************************************)
(* SpecLockFair: SpecLock where every instance that is inside a method     *)
(* keeps running (weak fairness of its steps), and where the clock         *)
(* advances: acquire() sleeps 0.1 s per failed attempt and compares        *)
(* time.time() with its start, so an instance with a timeout that fails    *)
(* again and again finds the timeout elapsed after finitely many attempts  *)
(* (strong fairness of AcquireTimeout).  When a method is called is the    *)
(* caller's choice: no fairness of CallAcquire, CallTryAcquire,            *)
(* CallRelease.                                                            *)
(***************************************************************************)
LockFairness ==
    \A i \in Procs :
        /\ WF_vars(LockStep(i))
        /\ WF_vars(Return(i))
        /\ SF_vars(AcquireTimeout(i))

SpecLockFair == SpecLock /\ LockFairness

(***************************************************************************)
(* SpecOracle: the freshness checks on their own, applied to every         *)
(* combination of the values they read.                                    *)
(***************************************************************************)
OtherDir == "/ws/moved_project"

\* the records a build cache can hold for a source
StoredStatuses(source_path) ==
    {NoStatus} \cup
    [build_mtime : Mtimes, source_path : {source_path, Path(OtherDir)},
     maturin_args : {to_args(st) : st \in SettingsChoices},
     maturin_output : {BuildOutput}]

\* The values the checks can read.  The installed mtime is read only when
\* the installed root was found; the root of the rust file finder is a file,
\* whose mtime is always there, as is the mtime of the .rs file.
OracleInputs ==
    {in \in [finder : Sources, force_rebuild : BOOLEAN, spec_found : BOOLEAN,
             installed_package_root : {"", "artifact"},
             installed_package_mtime : {NoMtime} \cup Mtimes,
             project_mtime : {NoMtime} \cup Mtimes,
             build_status : StoredStatuses(SourcePath(ProjectModule)) \cup
                            StoredStatuses(SourcePath(RustFileModule)),
             source_path : {SourcePath(s) : s \in Sources},
             maturin_args : {to_args(st) : st \in SettingsChoices}] :
        /\ in.source_path = SourcePath(in.finder)
        /\ in.build_status \in StoredStatuses(in.source_path)
        /\ in.installed_package_root = "" => in.installed_package_mtime = NoMtime
        /\ in.finder = RustFileModule =>
              /\ in.project_mtime # NoMtime
              /\ in.installed_package_root # "" => in.installed_package_mtime # NoMtime}

OracleInit ==
    /\ HookLockInit
    /\ lockKind = "FcntlFileLock"
    /\ HookInit
    /\ ~force_rebuild
    /\ focus = ProjectModule
    /\ oin \in OracleInputs
    /\ oout = NoResult
    /\ cache_op = NoCacheOp

\* the project finder runs its check
CheckPackage ==
    /\ oin.finder = ProjectModule
    /\ oout = NoResult
    /\ oout' = GetSpecForUpToDatePackage(oin)
    /\ UNCHANGED <<oin, cache_op, pc>>
    /\ UNCHANGED lockVars
    /\ UNCHANGED hookVars

\* the rust file finder runs its check
CheckExtensionModule ==
    /\ oin.finder = RustFileModule
    /\ oout = NoResult
    /\ oout' = GetSpecForUpToDateExtensionModule(oin)
    /\ UNCHANGED <<oin, cache_op, pc>>
    /\ UNCHANGED lockVars
    /\ UNCHANGED hookVars

OracleNext ==
    \/ CheckPackage
    \/ CheckExtensionModule

SpecOracle == OracleInit /\ [][OracleNext]_vars

(***************************************************************************)
(* SpecCache: a LockedBuildCache on its own, as in test_build_cache of     *)
(* tests/import_hook/test_utilities.py, in a cache directory whose record  *)
(* files can also be damaged from outside.                                 *)
(***************************************************************************)

\* the BuildStatus values the finders can store
ValidStatuses ==
    [build_mtime : Mtimes, source_path : {SourcePath(s) : s \in Sources},
     maturin_args : {to_args(st) : st \in SettingsChoices},
     maturin_output : {BuildOutput}]

\* damaged record files: no JSON at all (cut off while written), a JSON
\* document that is no object, an object that lacks a field
MalformedContents ==
    {[text |-> "{ \"build_mtime\": 17"],
     [list |-> <<>>],
     [build_mtime |-> Epoch, source_path |-> ProjectDir, maturin_args |-> <<>>]}

CacheInit ==
    /\ HookLockInit
    /\ lockKind = "FcntlFileLock"
    /\ HookInit
    /\ ~force_rebuild
    /\ focus = ProjectModule
    /\ oin = NoOracleInput
    /\ oout = NoResult
    /\ cache_op = NoCacheOp

\* locked_cache.store_build_status(st)
StoreBuildStatus(st) ==
    /\ build_status' = store_build_status(build_status, st)
    /\ cache_op' = [op |-> "store", status |-> st,
                    previous |-> cache_op.written[BuildStatusPath(st.source_path)],
                    written |-> [cache_op.written EXCEPT
                                     ![BuildStatusPath(st.source_path)] = st]]
    /\ UNCHANGED <<importing, force_rebuild, settings, result, cache_calls, outcome,
                   fs, now, builds, focus>>
    /\ UNCHANGED <<oin, oout, pc>>
    /\ UNCHANGED lockVars

\* locked_cache.get_build_status(source_path)
GetBuildStatus(source_path) ==
    /\ cache_op' = [op |-> "get", source_path |-> source_path,
                    value |-> get_build_status(build_status, source_path),
                    written |-> cache_op.written]
    /\ UNCHANGED hookVars
    /\ UNCHANGED <<oin, oout, pc>>
    /\ UNCHANGED lockVars

\* a record file is damaged
DamageRecord(path, content) ==
    /\ build_status' = [build_status EXCEPT ![path] = content]
    /\ cache_op' = [op |-> "damage", path |-> path,
                    written |-> [cache_op.written EXCEPT ![path] = Damaged]]
    /\ UNCHANGED <<importing, force_rebuild, settings, result, cache_calls, outcome,
                   fs, now, builds, focus>>
    /\ UNCHANGED <<oin, oout, pc>>
    /\ UNCHANGED lockVars

CacheNext ==
    \/ \E st \in ValidStatuses : StoreBuildStatus(st)
    \/ \E s \in Sources : GetBuildStatus(SourcePath(s))
    \/ \E path \in StatusPaths, content \in MalformedContents : DamageRecord(path, content)

SpecCache == CacheInit /\ [][CacheNext]_vars

(***************************************************************************)
(* SpecTree: one interpreter imports the project again and again while     *)
(* files of the project directory and of the path dependency, build        *)
(* directories and byte-code caches included, are added, saved and         *)
(* removed.  The build tool succeeds, force_rebuild is unset and the lock   *)
(* is a FcntlFileLock.                                                     *)
(***************************************************************************)

\* the files below the project directory and the path dependency that no
\* build of the hook writes
TreeFiles == {"lib_rs", "target_d", "dep_target_d", "pycache"}

\* the files of the tree written by cargo and by the interpreter
GeneratedFiles == {"target_d", "dep_target_d", "pycache"}

\* a generated file is removed (cargo clean, clearing the byte-code cache)
RemoveFile(f) ==
    /\ Exists(f)
    /\ fs' = [fs EXCEPT ![f] = NoMtime]
    /\ UNCHANGED <<pc, importing, force_rebuild, settings, result, cache_calls, outcome,
                   build_status, now, builds, focus>>
    /\ UNCHANGED lockVars
    /\ UNCHANGED oracleVars

TreeInit ==
    /\ Init
    /\ lockKind = "FcntlFileLock"
    /\ ~force_rebuild
    /\ focus = ProjectModule

TreeNext ==
    \/ \E p \in {SetMin(Procs)} : StartImport(p, ProjectModule, DefaultSettings)
    \/ \E p \in Procs : TryAcquire(p)
    \/ \E p \in Procs : SetLocked(p)
    \/ \E p \in Procs : CheckUpToDate(p)
    \/ \E p \in Procs : BuildStart(p)
    \/ \E p \in Procs : BuildEnd(p, "ok")
    \/ \E p \in Procs : PostBuild(p)
    \/ \E p \in Procs : ReleaseEnter(p)
    \/ \E p \in Procs : ReleaseClearFlag(p)
    \/ \E p \in Procs : Finish(p)
    \/ \E f \in TreeFiles : Touch(f)
    \/ \E f \in GeneratedFiles : RemoveFile(f)

SpecTree == TreeInit /\ [][TreeNext]_vars

(***************************************************************************)
(* SpecSettings: to_args() of a settings object on its own, as in          *)
(* test_settings of tests/import_hook/test_utilities.py.  oin is the       *)
(* object, oout the argument list.                                         *)
(***************************************************************************)

\* the values of the fields in the model: those of test_settings, the
\* defaults, and the empty and zero values
FieldValues ==
    [release |-> BOOLEAN, strip |-> BOOLEAN, quiet |-> BOOLEAN,
     jobs |-> {NoneInt, 0, 1},
     profile |-> {NoneStr, "profile1"},
     features |-> {NoneList, <<>>, <<"feature1", "feature2">>},
     all_features |-> BOOLEAN, no_default_features |-> BOOLEAN,
     target |-> {NoneStr, "target1"},
     ignore_rust_version |-> BOOLEAN,
     color |-> {"None", "True", "False"},
     frozen |-> BOOLEAN, locked |-> BOOLEAN, offline |-> BOOLEAN,
     config |-> {NoneConfig, <<>>,
                 << <<"key1", "value1">>, <<"key2", "value2">> >>,
                 << <<"key2", "value2">>, <<"key1", "value1">> >>},
     unstable_flags |-> {NoneList, <<>>, <<"unstable1", "unstable2">>},
     verbose |-> {0, 2},
     rustc_flags |-> {NoneList, <<>>, <<"flag1", "flag2">>},
     skip_auditwheel |-> BOOLEAN, zig |-> BOOLEAN,
     extras |-> {NoneList, <<>>, <<"extra1", "extra2">>},
     skip_install |-> BOOLEAN]

\* per field, its values that are None, False, zero or an empty list / dict
EmptyFieldValues ==
    [release |-> {FALSE}, strip |-> {FALSE}, quiet |-> {FALSE},
     jobs |-> {NoneInt, 0},
     profile |-> {NoneStr},
     features |-> {NoneList, <<>>},
     all_features |-> {FALSE}, no_default_features |-> {FALSE},
     target |-> {NoneStr},
     ignore_rust_version |-> {FALSE},
     color |-> {"None", "False"},
     frozen |-> {FALSE}, locked |-> {FALSE}, offline |-> {FALSE},
     config |-> {NoneConfig, <<>>},
     unstable_flags |-> {NoneList, <<>>},
     verbose |-> {0},
     rustc_flags |-> {NoneList, <<>>},
     skip_auditwheel |-> {FALSE}, zig |-> {FALSE},
     extras |-> {NoneList, <<>>},
     skip_install |-> {FALSE}]

\* the objects of a class that differ from cls() in at most two fields
SettingsVariants(cls) ==
    UNION {{[[cls EXCEPT ![fg[1]] = v] EXCEPT ![fg[2]] = w] :
               v \in FieldValues[fg[1]], w \in FieldValues[fg[2]]} :
           fg \in (DOMAIN cls) \X (DOMAIN cls)}

SettingsInputs ==
    SettingsVariants(MaturinSettings)
        \cup SettingsVariants(MaturinBuildSettings)
        \cup SettingsVariants(MaturinDevelopSettings)

\* cls() of the class of st
DefaultOf(st) ==
    IF "zig" \in DOMAIN st THEN MaturinBuildSettings
    ELSE IF "extras" \in DOMAIN st THEN MaturinDevelopSettings
    ELSE MaturinSettings

NoArgs == [called |-> FALSE]

SettingsInit ==
    /\ HookLockInit
    /\ lockKind = "FcntlFileLock"
    /\ HookInit
    /\ ~force_rebuild
    /\ focus = ProjectModule
    /\ oin \in SettingsInputs
    /\ oout = NoArgs
    /\ cache_op = NoCacheOp

\* oin.to_args()
ToArgs ==
    /\ oout = NoArgs
    /\ oout' = [called |-> TRUE, args |-> ToArgsOf(oin)]
    /\ UNCHANGED <<oin, cache_op, pc>>
    /\ UNCHANGED lockVars
    /\ UNCHANGED hookVars

SettingsNext == ToArgs

SpecSettings == SettingsInit /\ [][SettingsNext]_vars

(***************************************************************************)
(* _resolve_project.py.  A TOML document is a function from keys to        *)
(* values; a directory is a function from the relative paths of the files  *)
(* that exist in it to their contents: [doc |-> d] for a file that parses  *)
(* to d, Unparsable for one that does not.                                 *)
(***************************************************************************)
NumDirs == 3

EmptyDict == [k \in {} |-> k]
Unparsable == [unparsable |-> TRUE]

\* dict.get(key, default)
Get(dict, key, default) == IF key \in DOMAIN dict THEN dict[key] ELSE default

\* tomllib.load(f)
tomllib_load(content) ==
    IF "doc" \in DOMAIN content THEN content.doc ELSE Raised("TOMLDecodeError")

\* with path.open("rb") as f: tomllib.load(f)
LoadToml(dir, path) ==
    IF path \in DOMAIN dir THEN tomllib_load(dir[path])
    ELSE Raised("FileNotFoundError")

find_cargo_manifest(project_dir) ==
    LET pyproject == IF "pyproject.toml" \in DOMAIN project_dir
                     THEN LoadToml(project_dir, "pyproject.toml")
                     ELSE EmptyDict
        relative_manifest_path ==
            Get(Get(Get(pyproject, "tool", EmptyDict), "maturin", EmptyDict),
                "manifest-path", NoneStr)
    IN  IF HasRaised(pyproject) THEN pyproject
        ELSE IF relative_manifest_path # NoneStr
        THEN [path |-> relative_manifest_path]
        ELSE IF "Cargo.toml" \in DOMAIN project_dir THEN [path |-> "Cargo.toml"]
        ELSE IF "rust/Cargo.toml" \in DOMAIN project_dir
        THEN [path |-> "rust/Cargo.toml"]
        ELSE [path |-> NoneStr]

\* [value |-> the Boolean returned] or the exception raised
is_maybe_maturin_project(project_dir) ==
    IF "pyproject.toml" \notin DOMAIN project_dir THEN [value |-> FALSE]
    ELSE LET manifest == find_cargo_manifest(project_dir)
         IN  IF HasRaised(manifest) THEN manifest
             ELSE [value |-> manifest.path # NoneStr]

\* dependencies are the items of the table in the order of the file; a value
\* is [str |-> version] or [dict |-> table]; a path is the directory it
\* resolves to
_get_immediate_path_dependencies(cargo) ==
    LET items == Get(cargo, "dependencies", <<>>)
        IsPath(k) == /\ "dict" \in DOMAIN items[k][2]
                     /\ Get(items[k][2].dict, "path", NoneInt) # NoneInt
    IN  [k \in 1..Len(SelectSeq([j \in 1..Len(items) |-> j], IsPath)) |->
            items[SelectSeq([j \in 1..Len(items) |-> j], IsPath)[k]][2].dict.path]

\* a resolution that reads project.name before lib.name
_resolve_module_name_ProjectFirst(pyproject, cargo) ==
    LET override == Get(Get(Get(pyproject, "tool", EmptyDict), "maturin", EmptyDict),
                        "module-name", NoneStr)
        lib_name == Get(Get(cargo, "lib", EmptyDict), "name", NoneStr)
        project_name == Get(Get(pyproject, "project", EmptyDict), "name", NoneStr)
    IN  IF override # NoneStr THEN override
        ELSE IF project_name # NoneStr THEN project_name
        ELSE IF lib_name # NoneStr THEN lib_name
        ELSE Get(Get(cargo, "package", EmptyDict), "name", NoneStr)

_resolve_module_name(pyproject, cargo) ==
    LET override == Get(Get(Get(pyproject, "tool", EmptyDict), "maturin", EmptyDict),
                        "module-name", NoneStr)
        lib_name == Get(Get(cargo, "lib", EmptyDict), "name", NoneStr)
        project_name == Get(Get(pyproject, "project", EmptyDict), "name", NoneStr)
    IN  IF override # NoneStr THEN override
        ELSE IF lib_name # NoneStr THEN lib_name
        ELSE IF project_name # NoneStr THEN project_name
        ELSE Get(Get(cargo, "package", EmptyDict), "name", NoneStr)

\* the MaturinProject (without the fields derived from the python source
\* root) or the exception raised
_resolve_project(project_dir) ==
    IF "pyproject.toml" \notin DOMAIN project_dir
    THEN Raised("ProjectResolveError")
    ELSE LET pyproject == LoadToml(project_dir, "pyproject.toml")
             manifest == find_cargo_manifest(project_dir)
         IN  IF HasRaised(pyproject) THEN pyproject
             ELSE IF manifest.path = NoneStr THEN Raised("ProjectResolveError")
             ELSE LET cargo == LoadToml(project_dir, manifest.path)
                  IN  IF HasRaised(cargo) THEN cargo
                      ELSE IF _resolve_module_name(pyproject, cargo) = NoneStr
                      THEN Raised("ProjectResolveError")
                      ELSE [cargo_manifest_path |-> manifest.path,
                            module_full_name |->
                                _resolve_module_name(pyproject, cargo),
                            immediate_path_dependencies |->
                                _get_immediate_path_dependencies(cargo)]

NoProject == [none |-> TRUE]

\* ProjectResolver.resolve of a directory not yet in the resolver's cache:
\* the project, None, or the exception that is not caught
resolve(project_dir) ==
    IF _resolve_project(project_dir) = Raised("ProjectResolveError")
    THEN NoProject
    ELSE _resolve_project(project_dir)

RECURSIVE Sorted(_)
\* sorted(paths)
Sorted(paths) ==
    IF paths = {} THEN <<>>
    ELSE LET least == CHOOSE d \in paths : \A e \in paths : d <= e
         IN  <<least>> \o Sorted(paths \ {least})

RECURSIVE SearchDependencies_ImmediateOnly(_, _, _, _)
\* a search that never reads the manifest of a dependency
SearchDependencies_ImmediateOnly(to_search, all_path_dependencies, iterations, tree) ==
    IF to_search = <<>>
    THEN [all_path_dependencies |-> Sorted(all_path_dependencies),
          iterations |-> iterations]
    ELSE SearchDependencies_ImmediateOnly(
             SubSeq(to_search, 1, Len(to_search) - 1),
             all_path_dependencies \cup {to_search[Len(to_search)]},
             iterations + 1, tree)

RECURSIVE SearchDependencies(_, _, _, _)
\* the while loop of _find_all_path_dependencies; tree maps each directory
\* that has a Cargo.toml to the content of that file
SearchDependencies(to_search, all_path_dependencies, iterations, tree) ==
    IF to_search = <<>>
    THEN [all_path_dependencies |-> Sorted(all_path_dependencies),
          iterations |-> iterations]
    ELSE LET dependency_project_dir == to_search[Len(to_search)]
             rest == SubSeq(to_search, 1, Len(to_search) - 1)
         IN  IF dependency_project_dir \in all_path_dependencies
             THEN SearchDependencies(rest, all_path_dependencies,
                                     iterations + 1, tree)
             ELSE IF dependency_project_dir \in DOMAIN tree
             THEN SearchDependencies(
                      rest \o _get_immediate_path_dependencies(
                                  tomllib_load(tree[dependency_project_dir])),
                      all_path_dependencies \cup {dependency_project_dir},
                      iterations + 1, tree)
             ELSE SearchDependencies(
                      rest, all_path_dependencies \cup {dependency_project_dir},
                      iterations + 1, tree)

_find_all_path_dependencies(immediate_path_dependencies, tree) ==
    IF immediate_path_dependencies = <<>>
    THEN [all_path_dependencies |-> <<>>, iterations |-> 0]
    ELSE SearchDependencies(immediate_path_dependencies, {}, 0, tree)

(***************************************************************************)
(* SpecResolve: the resolver on its own.  oin is either a project          *)
(* directory to resolve or a tree of dependency directories to search.     *)
(***************************************************************************)

\* a table holding key, when value is given
Opt(key, values) == {EmptyDict} \cup {key :> v : v \in values}

PyprojectDocs ==
    {tool @@ project :
        tool \in Opt("tool", {EmptyDict, "maturin" :> EmptyDict,
                              "maturin" :> ("module-name" :> "override_name"),
                              "maturin" :> ("manifest-path" :> "rust/Cargo.toml"),
                              "maturin" :> ("manifest-path" :> "missing/Cargo.toml")}),
        project \in Opt("project", {EmptyDict, "name" :> "project_name"})}

CargoDocs ==
    {lib @@ package :
        lib \in Opt("lib", {EmptyDict, "name" :> "lib_name"}),
        package \in Opt("package", {EmptyDict, "name" :> "package_name"})}

\* a file that is absent, unparsable, or one of docs
FileChoices(path, docs) ==
    {EmptyDict, path :> Unparsable} \cup {path :> [doc |-> d] : d \in docs}

ProjectDirs ==
    {pyproject @@ cargo @@ rust_cargo :
        pyproject \in FileChoices("pyproject.toml", PyprojectDocs),
        cargo \in FileChoices("Cargo.toml", CargoDocs),
        rust_cargo \in {EmptyDict,
                        "rust/Cargo.toml" :>
                            [doc |-> "package" :> ("name" :> "rust_package_name")]}}

DepDirs == 1..NumDirs

\* lists of at most two distinct directories of dirs
DepLists(dirs) ==
    {<<>>} \cup {<<d>> : d \in dirs}
           \cup {p \in dirs \X dirs : p[1] < p[2]}
           \cup {<<2, 1>>}

\* the Cargo.toml of a directory with path dependencies deps, a registry
\* dependency and a table dependency without a path
CargoOf(deps) ==
    [doc |-> "dependencies" :>
        (<< <<"serde", [str |-> "1.0"]>> >>
         \o [k \in 1..Len(deps) |->
                <<"dep" \o Str(deps[k]), [dict |-> "path" :> deps[k]]>>]
         \o << <<"pyo3", [dict |-> "version" :> "0.20"]>> >>)]

\* the trees over dirs: every directory has no Cargo.toml or one with a list
\* of path dependencies
DepTrees(dirs) ==
    UNION {[with_manifest -> {CargoOf(deps) : deps \in DepLists(dirs)}] :
              with_manifest \in SUBSET dirs}

ResolveInputs(dirs) ==
    {[kind |-> "project", project_dir |-> d] : d \in ProjectDirs}
        \cup {[kind |-> "tree", immediate_path_dependencies |-> deps, tree |-> t] :
                deps \in DepLists(dirs), t \in DepTrees(dirs)}

NoResolved == [called |-> FALSE]

ResolveInit ==
    /\ HookLockInit
    /\ lockKind = "FcntlFileLock"
    /\ HookInit
    /\ ~force_rebuild
    /\ focus = ProjectModule
    /\ oin \in ResolveInputs(DepDirs)
    /\ oout = NoResolved
    /\ cache_op = NoCacheOp

\* _resolve_project(project_dir) and ProjectResolver().resolve(project_dir)
ResolveProject ==
    /\ oin.kind = "project"
    /\ oout = NoResolved
    /\ oout' = [called |-> TRUE,
                resolved |-> _resolve_project(oin.project_dir),
                project |-> resolve(oin.project_dir)]
    /\ UNCHANGED <<oin, cache_op, pc>>
    /\ UNCHANGED lockVars
    /\ UNCHANGED hookVars

\* MaturinProject.all_path_dependencies
GetAllPathDependencies ==
    /\ oin.kind = "tree"
    /\ oout = NoResolved
    /\ oout' = [called |-> TRUE] @@
               _find_all_path_dependencies(oin.immediate_path_dependencies, oin.tree)
    /\ UNCHANGED <<oin, cache_op, pc>>
    /\ UNCHANGED lockVars
    /\ UNCHANGED hookVars

ResolveNext == ResolveProject \/ GetAllPathDependencies

SpecResolve == ResolveInit /\ [][ResolveNext]_vars

(***************************************************************************)
(* SpecSearch: the search loops of find_spec of both finders, in one       *)
(* interpreter.  oin is the world the finder runs in, oout the position of *)
(* the call.  A directory named on sys.path or in a dist-info is one of    *)
(* the two project directories of the world; None is NoneInt.  Whether the *)
(* candidate is up to date and how the build ends are inputs of the steps. *)
(***************************************************************************)

\* what a candidate project directory can hold
CandidateDirs ==
    [good |->
        ("pyproject.toml" :> [doc |-> "project" :> ("name" :> ProjectModule)])
        @@ ("Cargo.toml" :> [doc |-> "package" :> ("name" :> "pyo3-mixed")]),
     other_name |->
        ("pyproject.toml" :> [doc |-> "project" :> ("name" :> "other_package")])
        @@ ("Cargo.toml" :> [doc |-> "package" :> ("name" :> "other-package")]),
     no_name |->
        ("pyproject.toml" :> [doc |-> EmptyDict])
        @@ ("Cargo.toml" :> [doc |-> EmptyDict]),
     no_manifest |->
        ("pyproject.toml" :> [doc |-> "project" :> ("name" :> ProjectModule)]),
     missing_manifest |->
        ("pyproject.toml" :>
            [doc |-> ("project" :> ("name" :> ProjectModule))
                     @@ ("tool" :> ("maturin" :>
                                      ("manifest-path" :> "missing/Cargo.toml")))]),
     bad_cargo |->
        ("pyproject.toml" :> [doc |-> "project" :> ("name" :> ProjectModule)])
        @@ ("Cargo.toml" :> Unparsable),
     bad_pyproject |->
        ("pyproject.toml" :> Unparsable)
        @@ ("Cargo.toml" :> [doc |-> "package" :> ("name" :> "pyo3-mixed")])]

NoDistInfo == [no_dist_info |-> TRUE]

\* _load_dist_info(path, package_name) with require_project_target = True,
\* for a direct_url.json that holds a file:// url; search_path is the entry
\* of sys.path
_load_dist_info(search_path, projects) ==
    IF search_path.dist_info = NoDistInfo
    THEN [project_dir |-> NoneInt, is_editable |-> FALSE]
    ELSE LET is_project ==
                 is_maybe_maturin_project(projects[search_path.dist_info.url])
         IN  IF HasRaised(is_project) THEN is_project
             ELSE IF is_project.value
             THEN [project_dir |-> search_path.dist_info.url,
                   is_editable |-> search_path.dist_info.editable]
             ELSE [project_dir |-> NoneInt,
                   is_editable |-> search_path.dist_info.editable]

\* _find_maturin_project_above(path): search_path.above is the nearest
\* directory at or above the path that holds a pyproject.toml
_find_maturin_project_above(search_path, projects) ==
    IF search_path.above = NoneInt THEN [project_dir |-> NoneInt]
    ELSE LET is_project == is_maybe_maturin_project(projects[search_path.above])
         IN  IF HasRaised(is_project) THEN is_project
             ELSE IF is_project.value THEN [project_dir |-> search_path.above]
             ELSE [project_dir |-> NoneInt]

\* a test that takes every package for installed in editable mode
_is_editable_installed_package_Always(project_dir, site, projects) ==
    [value |-> TRUE]

\* _is_editable_installed_package(project_dir, package_name): site is the
\* site-packages directory
_is_editable_installed_package(project_dir, site, projects) ==
    IF site.pth # NoneInt /\ site.pth = project_dir THEN [value |-> TRUE]
    ELSE IF site.package_dir
    THEN LET linked == _load_dist_info(site, projects)
         IN  IF HasRaised(linked) THEN linked
             ELSE [value |-> linked.project_dir = project_dir /\ linked.is_editable]
    ELSE [value |-> FALSE]

\* the position of a finder that is not inside find_spec
NoCall ==
    [phase |-> "idle", search_paths |-> <<>>, i |-> NoneInt, project_dir |-> NoneInt,
     found_by |-> NoneStr, is_locked |-> FALSE, locks |-> 0, checks |-> 0,
     builds |-> 0, spec |-> FALSE, rebuilt |-> FALSE, exc |-> NoneStr]

\* return spec / return None
Returned(call, spec, rebuilt) ==
    [call EXCEPT !.phase = "returned", !.spec = spec, !.rebuilt = rebuilt,
                 !.is_locked = FALSE]

\* an exception leaves find_spec
Raise(call, exc) == [call EXCEPT !.phase = "raised", !.exc = exc, !.is_locked = FALSE]

\* the for loop goes on to the next search path, or ends
NextSearchPath(call, first_phase) ==
    IF call.i < Len(call.search_paths)
    THEN [call EXCEPT !.i = call.i + 1, !.phase = first_phase]
    ELSE Returned(call, FALSE, FALSE)

\* _rebuild_project returned (None, False)
Declined(call) ==
    IF call.found_by = "dist_info" THEN [call EXCEPT !.phase = "above"]
    ELSE NextSearchPath(call, "dist_info")

SearchUnchanged ==
    /\ UNCHANGED <<oin, cache_op, pc>>
    /\ UNCHANGED lockVars
    /\ UNCHANGED hookVars

\* a find_spec that searches for a module that is already loaded
FindSpec_NoLoadedCheck(path_is_none) ==
    /\ oout.call.phase = "idle"
    /\ oout' = [oout EXCEPT !.call =
                  [NoCall EXCEPT !.phase = IF oin.finder = "project"
                                           THEN "dist_info" ELSE "rust_file",
                                 !.search_paths = oin.sys_path,
                                 !.i = 1]]
    /\ SearchUnchanged

\* find_spec is called: lines 89-106 of project_importer.py,
\* 91-109 of rust_file_importer.py
FindSpec(path_is_none) ==
    /\ oout.call.phase = "idle"
    /\ oout' = [oout EXCEPT !.call =
                  IF oout.sys_modules THEN Returned(NoCall, FALSE, FALSE)
                  ELSE IF oin.finder = "project" /\ ~path_is_none
                  THEN Returned(NoCall, FALSE, FALSE)
                  ELSE [NoCall EXCEPT !.phase = IF oin.finder = "project"
                                                THEN "dist_info" ELSE "rust_file",
                                      !.search_paths = IF path_is_none
                                                       THEN oin.sys_path ELSE oin.path,
                                      !.i = 1]]
    /\ SearchUnchanged

\* project_importer.py lines 109-120
LoadDistInfo ==
    /\ oout.call.phase = "dist_info"
    /\ LET call == oout.call
           linked == _load_dist_info(call.search_paths[call.i], oin.projects)
       IN  oout' = [oout EXCEPT !.call =
                      IF HasRaised(linked) THEN Raise(call, linked.raised)
                      ELSE IF linked.project_dir = NoneInt
                      THEN [call EXCEPT !.phase = "above"]
                      ELSE IF ~linked.is_editable /\ ~oin.install_new_packages
                      THEN [call EXCEPT !.phase = "above"]
                      ELSE [call EXCEPT !.phase = "rebuild",
                                        !.project_dir = linked.project_dir,
                                        !.found_by = "dist_info"]]
    /\ SearchUnchanged

\* project_importer.py lines 122-131
FindProjectAbove ==
    /\ oout.call.phase = "above"
    /\ LET call == oout.call
           above == _find_maturin_project_above(call.search_paths[call.i],
                                                oin.projects)
       IN  oout' = [oout EXCEPT !.call =
                      IF HasRaised(above) THEN Raise(call, above.raised)
                      ELSE IF above.project_dir = NoneInt
                      THEN NextSearchPath(call, "dist_info")
                      ELSE [call EXCEPT !.phase = "rebuild",
                                        !.project_dir = above.project_dir,
                                        !.found_by = "above"]]
    /\ SearchUnchanged

\* _rebuild_project lines 148-176, up to the lock of the build cache, with
\* ProjectResolver.resolve reading and filling the resolver's cache
\* (package_name is module_full_name up to its first dot; the names of the
\* model hold no dot)
RebuildProject ==
    /\ oout.call.phase = "rebuild"
    /\ LET call == oout.call
           resolved == IF call.project_dir \in DOMAIN oout._resolved_project_cache
                       THEN oout._resolved_project_cache[call.project_dir]
                       ELSE resolve(oin.projects[call.project_dir])
           editable == _is_editable_installed_package(call.project_dir, oin.site,
                                                      oin.projects)
       IN  oout' = [oout EXCEPT
                    !._resolved_project_cache =
                      IF HasRaised(resolved) THEN @
                      ELSE (call.project_dir :> resolved) @@ @,
                    !.call =
                      IF HasRaised(resolved) THEN Raise(call, resolved.raised)
                      ELSE IF resolved = NoProject THEN Declined(call)
                      ELSE IF resolved.module_full_name # ProjectModule
                      THEN Declined(call)
                      ELSE IF oin.install_new_packages
                      THEN [call EXCEPT !.phase = "locked", !.is_locked = TRUE,
                                        !.locks = call.locks + 1]
                      ELSE IF HasRaised(editable) THEN Raise(call, editable.raised)
                      ELSE IF ~editable.value THEN Declined(call)
                      ELSE [call EXCEPT !.phase = "locked", !.is_locked = TRUE,
                                        !.locks = call.locks + 1]]
    /\ SearchUnchanged

\* rust_file_importer.py lines 110-116 and 134: the .rs file of the search
\* path, when there is one, is imported under the lock of the build cache
FindRustFile ==
    /\ oout.call.phase = "rust_file"
    /\ LET call == oout.call
       IN  oout' = [oout EXCEPT !.call =
                      IF call.search_paths[call.i]
                      THEN [call EXCEPT !.phase = "locked", !.is_locked = TRUE,
                                        !.locks = call.locks + 1]
                      ELSE NextSearchPath(call, "rust_file")]
    /\ SearchUnchanged

\* _get_spec_for_up_to_date_package / _get_spec_for_up_to_date_extension_module
\* under the lock: the candidate is up to date or not
GetSpecForUpToDate(up_to_date) ==
    /\ oout.call.phase = "locked"
    /\ LET call == [oout.call EXCEPT !.checks = oout.call.checks + 1]
       IN  oout' = [oout EXCEPT !.call =
                      IF up_to_date THEN Returned(call, TRUE, FALSE)
                      ELSE [call EXCEPT !.phase = "building"]]
    /\ SearchUnchanged

\* a build after which the search goes on when the module is not found
RunBuild_SearchGoesOn(res) ==
    /\ oout.call.phase = "building"
    /\ LET call == [oout.call EXCEPT !.builds = oout.call.builds + 1]
       IN  oout' = [oout EXCEPT !.call =
                      IF res = "ok" THEN Returned(call, TRUE, TRUE)
                      ELSE IF res = "failed" THEN Raise(call, "MaturinError")
                      ELSE IF oin.finder = "project"
                      THEN Declined([call EXCEPT !.is_locked = FALSE])
                      ELSE NextSearchPath([call EXCEPT !.is_locked = FALSE],
                                          "rust_file")]
    /\ SearchUnchanged

\* the build tool runs (project_importer.py lines 189-222,
\* rust_file_importer.py lines 150-188): it fails, or the module is not
\* found after it, or the module is found and the build recorded
RunBuild(res) ==
    /\ oout.call.phase = "building"
    /\ LET call == [oout.call EXCEPT !.builds = oout.call.builds + 1]
       IN  oout' = [oout EXCEPT !.call =
                      IF res = "ok" THEN Returned(call, TRUE, TRUE)
                      ELSE IF res = "failed" THEN Raise(call, "MaturinError")
                      ELSE Raise(call, "ImportError")]
    /\ SearchUnchanged

\* the import system loads the module of the spec returned
ModuleLoaded ==
    /\ oout.call.phase = "returned"
    /\ oout.call.spec
    /\ oout' = [oout EXCEPT !.sys_modules = TRUE, !.call = NoCall]
    /\ SearchUnchanged

\* the finder returned None: the import goes on without it
ImportGoesOn ==
    /\ oout.call.phase = "returned"
    /\ ~oout.call.spec
    /\ oout' = [oout EXCEPT !.call = NoCall]
    /\ SearchUnchanged

\* an entry of sys.path of the project finder
SearchPathEntries(dist_infos) ==
    {[dist_info |-> d, above |-> a] : d \in dist_infos, a \in {NoneInt, 1, 2}}

DistInfos ==
    {NoDistInfo, [editable |-> TRUE, url |-> 1], [editable |-> FALSE, url |-> 1],
     [editable |-> TRUE, url |-> 2]}

\* the worlds of the project finder: two project directories, the
\* site-packages directory last on sys.path
ProjectWorlds ==
    {[finder |-> "project",
      install_new_packages |-> inp,
      projects |-> <<CandidateDirs[first], CandidateDirs[second]>>,
      site |-> [dist_info |-> site.dist_info, above |-> site.above,
                pth |-> pth, package_dir |-> package_dir],
      sys_path |-> <<entry, site>>,
      path |-> <<>>] :
        inp \in BOOLEAN,
        first \in DOMAIN CandidateDirs,
        second \in {"good", "other_name"},
        site \in SearchPathEntries(DistInfos),
        entry \in SearchPathEntries({NoDistInfo}),
        pth \in {NoneInt, 1},
        package_dir \in BOOLEAN}

\* the worlds of the rust file finder: whether <module>.rs is a file in each
\* directory of sys.path and of the path of the parent package
RustFileWorlds ==
    {[finder |-> "rust_file", sys_path |-> <<a, b>>, path |-> <<c, d>>] :
        a \in BOOLEAN, b \in BOOLEAN, c \in BOOLEAN, d \in BOOLEAN}

SearchInit ==
    /\ HookLockInit
    /\ lockKind = "FcntlFileLock"
    /\ HookInit
    /\ ~force_rebuild
    /\ focus = ProjectModule
    /\ oin \in ProjectWorlds \cup RustFileWorlds
    /\ oout = [sys_modules |-> FALSE, _resolved_project_cache |-> EmptyDict,
               call |-> NoCall]
    /\ cache_op = NoCacheOp

SearchNext ==
    \/ \E path_is_none \in BOOLEAN : FindSpec(path_is_none)
    \/ LoadDistInfo
    \/ FindProjectAbove
    \/ RebuildProject
    \/ FindRustFile
    \/ \E up_to_date \in BOOLEAN : GetSpecForUpToDate(up_to_date)
    \/ \E res \in BuildResults : RunBuild(res)
    \/ ModuleLoaded
    \/ ImportGoesOn

SpecSearch == SearchInit /\ [][SearchNext]_vars

(***************************************************************************)
(* The modification times of project_importer.py on a directory tree.  A   *)
(* path is the sequence of its names; a tree maps every path that exists   *)
(* to its os.stat_result.                                                  *)
(***************************************************************************)
Directory == [is_dir |-> TRUE]
RegularFile(mtime) == [is_dir |-> FALSE, st_mtime |-> mtime]

\* path.is_dir()
IsDir(path, tree) == path \in DOMAIN tree /\ tree[path].is_dir

\* dir_path.iterdir()
IterDir(dir_path, tree) ==
    {path \in DOMAIN tree :
        /\ Len(path) = Len(dir_path) + 1
        /\ SubSeq(path, 1, Len(dir_path)) = dir_path}

RECURSIVE WalkDir(_, _, _, _)
\* _get_files_in_dirs((dir_path,), ...) for a directory that exists
WalkDir(dir_path, excluded_dir_names, excluded_dir_paths, tree) ==
    LET entries == IterDir(dir_path, tree)
        descended == {path \in entries :
                        /\ IsDir(path, tree)
                        /\ path[Len(path)] \notin excluded_dir_names
                        /\ path \notin excluded_dir_paths}
    IN  {path \in entries : ~IsDir(path, tree)}
            \cup UNION {WalkDir(path, excluded_dir_names, excluded_dir_paths, tree) :
                           path \in descended}

\* _get_files_in_dirs, consumed to its end: the files yielded, or the
\* FileNotFoundError of iterdir() on a directory that does not exist
_get_files_in_dirs(dir_paths, excluded_dir_names, excluded_dir_paths, tree) ==
    IF \E k \in 1..Len(dir_paths) : dir_paths[k] \notin DOMAIN tree
    THEN Raised("FileNotFoundError")
    ELSE [files |-> UNION {WalkDir(dir_paths[k], excluded_dir_names,
                                   excluded_dir_paths, tree) :
                              k \in 1..Len(dir_paths)}]

\* an installed mtime that is the time of the newest file
_get_installed_package_mtime_Newest(installed_package_root, excluded_dir_names, tree) ==
    IF IsDir(installed_package_root, tree)
    THEN LET walk == _get_files_in_dirs(<<installed_package_root>>,
                                        excluded_dir_names, {}, tree)
         IN  IF HasRaised(walk) THEN walk
             ELSE IF walk.files = {} THEN [value |-> NoMtime]
             ELSE [value |-> SetMax({tree[path].st_mtime : path \in walk.files})]
    ELSE IF installed_package_root \in DOMAIN tree
    THEN [value |-> tree[installed_package_root].st_mtime]
    ELSE [value |-> NoMtime]

\* _get_installed_package_mtime: [value |-> the mtime or None] or the
\* exception raised (min() of nothing raises the ValueError that is caught)
_get_installed_package_mtime(installed_package_root, excluded_dir_names, tree) ==
    IF IsDir(installed_package_root, tree)
    THEN LET walk == _get_files_in_dirs(<<installed_package_root>>,
                                        excluded_dir_names, {}, tree)
         IN  IF HasRaised(walk) THEN walk
             ELSE IF walk.files = {} THEN [value |-> NoMtime]
             ELSE [value |-> SetMin({tree[path].st_mtime : path \in walk.files})]
    ELSE IF installed_package_root \in DOMAIN tree
    THEN [value |-> tree[installed_package_root].st_mtime]
    ELSE [value |-> NoMtime]

\* a project mtime that never excludes the installed package
_get_project_mtime_NothingExcluded(project_dir, all_path_dependencies, installed_package_root, excluded_dir_names, tree) ==
    LET walk == _get_files_in_dirs(<<project_dir>> \o all_path_dependencies,
                                   excluded_dir_names, {}, tree)
    IN  IF HasRaised(walk) THEN [value |-> NoMtime]
        ELSE IF walk.files = {} THEN [value |-> NoMtime]
        ELSE [value |-> SetMax({tree[path].st_mtime : path \in walk.files})]

\* _get_project_mtime: FileNotFoundError and ValueError are caught
_get_project_mtime(project_dir, all_path_dependencies, installed_package_root, excluded_dir_names, tree) ==
    LET excluded_dirs == IF IsDir(installed_package_root, tree)
                         THEN {installed_package_root} ELSE {}
        walk == _get_files_in_dirs(<<project_dir>> \o all_path_dependencies,
                                   excluded_dir_names, excluded_dirs, tree)
    IN  IF HasRaised(walk) THEN [value |-> NoMtime]
        ELSE IF walk.files = {} THEN [value |-> NoMtime]
        ELSE [value |-> SetMax({tree[path].st_mtime : path \in walk.files})]

(***************************************************************************)
(* SpecMtime: the two mtime functions on their own, as in                  *)
(* TestGetProjectMtime of tests/import_hook/test_utilities.py.  oin is the *)
(* tree and the arguments, oout the value returned.                        *)
(***************************************************************************)
ProjectPath == <<"project">>
PathDepPath == <<"path_dep">>
InstalledRootPath == <<"project", "pyo3_mixed">>

\* nothing, or a directory at dir_path with nothing in it, or with the file
\* called name
DirWithFile(dir_path, name, mtimes) ==
    {EmptyDict, dir_path :> Directory}
        \cup {(dir_path :> Directory) @@ (Append(dir_path, name) :> RegularFile(t)) :
                 t \in mtimes}

\* what can be at the installed package root: nothing, an extension module
\* file, or a package directory that holds an extension module and a
\* byte-code cache
InstalledRoots(mtimes) ==
    {EmptyDict} \cup {InstalledRootPath :> RegularFile(t) : t \in mtimes}
        \cup {(InstalledRootPath :> Directory) @@ so @@ pyc :
                 so \in {EmptyDict} \cup
                        {Append(InstalledRootPath, "pyo3_mixed.so") :> RegularFile(t) :
                            t \in mtimes},
                 pyc \in DirWithFile(Append(InstalledRootPath, "__pycache__"),
                                     "__init__.pyc", mtimes)}

\* the trees of the model: a project directory with sources, a build
\* directory and the installed package, and a path dependency beside it
Trees(mtimes) ==
    {(ProjectPath :> Directory) @@ src @@ target @@ installed @@ dep :
        src \in DirWithFile(Append(ProjectPath, "src"), "lib.rs", mtimes),
        target \in DirWithFile(Append(ProjectPath, "target"), "debug.d", mtimes),
        installed \in InstalledRoots(mtimes),
        dep \in DirWithFile(PathDepPath, "lib.rs", mtimes)}

MtimeInputs(mtimes) ==
    [tree : Trees(mtimes),
     all_path_dependencies : {<<>>, <<PathDepPath>>},
     excluded_dir_names : {DEFAULT_EXCLUDED_DIR_NAMES, {}, {"src"}}]

NoMtimeCall == [called |-> "none"]

MtimeInit ==
    /\ HookLockInit
    /\ lockKind = "FcntlFileLock"
    /\ HookInit
    /\ ~force_rebuild
    /\ focus = ProjectModule
    /\ oin \in MtimeInputs(Mtimes)
    /\ oout = NoMtimeCall
    /\ cache_op = NoCacheOp

\* _get_installed_package_mtime(installed_package_root, excluded_dir_names)
InstalledPackageMtime ==
    /\ oout = NoMtimeCall
    /\ oout' = [called |-> "_get_installed_package_mtime",
                result |-> _get_installed_package_mtime(
                               InstalledRootPath, oin.excluded_dir_names, oin.tree)]
    /\ UNCHANGED <<oin, cache_op, pc>>
    /\ UNCHANGED lockVars
    /\ UNCHANGED hookVars

\* _get_project_mtime(project_dir, all_path_dependencies,
\*                    installed_package_root, excluded_dir_names)
ProjectMtime ==
    /\ oout = NoMtimeCall
    /\ oout' = [called |-> "_get_project_mtime",
                result |-> _get_project_mtime(
                               ProjectPath, oin.all_path_dependencies,
                               InstalledRootPath, oin.excluded_dir_names, oin.tree)]
    /\ UNCHANGED <<oin, cache_op, pc>>
    /\ UNCHANGED lockVars
    /\ UNCHANGED hookVars

MtimeNext == InstalledPackageMtime \/ ProjectMtime

SpecMtime == MtimeInit /\ [][MtimeNext]_vars

(***************************************************************************)
(* SpecResolver: one ProjectResolver in one process, asked to resolve the  *)
(* same directories again and again while their manifests are edited.      *)
(* oin is the content of the directories; oout holds the resolver's        *)
(* _resolved_project_cache, how often _resolve_project ran for every       *)
(* directory, what the first call for a directory ended with and what the  *)
(* last call ended with.                                                   *)
(***************************************************************************)
MaxCalls == 3

ResolverDirs == {1, 2}

NoResolverCall == [project_dir |-> NoneInt, result |-> NoProject]

\* ProjectResolver.resolve(project_dir) on a resolver whose cache is
\* resolved_project_cache: what it returns or raises, the cache afterwards
\* and whether _resolve_project ran
ProjectResolver_resolve(resolved_project_cache, project_dir, content) ==
    IF project_dir \notin DOMAIN resolved_project_cache
    THEN LET resolved == _resolve_project(content)
         IN  IF resolved = Raised("ProjectResolveError")
             THEN [result |-> NoProject, ran |-> TRUE,
                   cache |-> (project_dir :> NoProject) @@ resolved_project_cache]
             ELSE IF HasRaised(resolved)
             THEN [result |-> resolved, ran |-> TRUE, cache |-> resolved_project_cache]
             ELSE [result |-> resolved, ran |-> TRUE,
                   cache |-> (project_dir :> resolved) @@ resolved_project_cache]
    ELSE [result |-> resolved_project_cache[project_dir], ran |-> FALSE,
          cache |-> resolved_project_cache]

ResolverInit ==
    /\ HookLockInit
    /\ lockKind = "FcntlFileLock"
    /\ HookInit
    /\ ~force_rebuild
    /\ focus = ProjectModule
    /\ oin \in {<<CandidateDirs[first], CandidateDirs[second]>> :
                   first \in DOMAIN CandidateDirs, second \in {"good", "no_manifest"}}
    /\ oout = [_resolved_project_cache |-> EmptyDict,
               resolutions |-> [d \in ResolverDirs |-> 0],
               first |-> EmptyDict,
               last |-> NoResolverCall,
               calls |-> 0]
    /\ cache_op = NoCacheOp

\* resolver.resolve(project_dir)
Resolve(project_dir) ==
    /\ oout.calls < MaxCalls
    /\ LET call == ProjectResolver_resolve(oout._resolved_project_cache, project_dir,
                                           oin[project_dir])
       IN  oout' = [_resolved_project_cache |-> call.cache,
                    resolutions |-> [oout.resolutions EXCEPT ![project_dir] =
                                        IF call.ran THEN @ + 1 ELSE @],
                    first |-> IF project_dir \in DOMAIN oout.first THEN oout.first
                              ELSE (project_dir :> call.result) @@ oout.first,
                    last |-> [project_dir |-> project_dir, result |-> call.result],
                    calls |-> oout.calls + 1]
    /\ UNCHANGED <<oin, cache_op, pc>>
    /\ UNCHANGED lockVars
    /\ UNCHANGED hookVars

\* the user edits, adds or removes the manifests of a directory
EditManifests(project_dir, kind) ==
    /\ oin[project_dir] # CandidateDirs[kind]
    /\ oin' = [oin EXCEPT ![project_dir] = CandidateDirs[kind]]
    /\ UNCHANGED <<oout, cache_op, pc>>
    /\ UNCHANGED lockVars
    /\ UNCHANGED hookVars

ResolverNext ==
    \/ \E project_dir \in ResolverDirs : Resolve(project_dir)
    \/ \E project_dir \in ResolverDirs, kind \in DOMAIN CandidateDirs :
          EditManifests(project_dir, kind)

SpecResolver == ResolverInit /\ [][ResolverNext]_vars

(***************************************************************************)
(* SpecWarnings: the compiler warnings the finders log.  Interpreters      *)
(* import one source one after the other, each with its own show_warnings, *)
(* while the user saves the source and installs the project without the    *)
(* hook.  oin names the finder; oout holds the clock, the mtime of the     *)
(* source, the installed artifact with the output of the build that wrote  *)
(* it, the record of the build cache and what the last find_spec did.      *)
(***************************************************************************)

\* the lines of an output of the build tool: a summary line
\* "warning: `<crate>` (<target>) generated <n> warning(s)" or other text
SummaryLine(target, count) == [target |-> target, generated |-> count]
TextLine(text) == [text |-> text]

\* what the build tool can print when it exits with status 0
OutputLines ==
    [clean |-> <<TextLine("Finished dev [unoptimized + debuginfo] target(s)")>>,
     unused_variable |->
        <<TextLine("warning: unused variable: x"), SummaryLine("lib", 1),
          TextLine("Finished dev [unoptimized + debuginfo] target(s)")>>,
     dead_code |->
        <<TextLine("warning: function f is never used"),
          TextLine("warning: unused import: std::fmt"), SummaryLine("lib", 2),
          TextLine("Finished dev [unoptimized + debuginfo] target(s)")>>,
     build_script |->
        <<TextLine("warning: unused variable: x"), SummaryLine("build script", 1),
          TextLine("Finished dev [unoptimized + debuginfo] target(s)")>>]
Outputs == DOMAIN OutputLines

\* maturin_output_has_warnings: the output holds a summary line of a lib or
\* bin target
maturin_output_has_warnings(output) ==
    \E k \in 1..Len(OutputLines[output]) :
        /\ "generated" \in DOMAIN OutputLines[output][k]
        /\ OutputLines[output][k].target \in {"lib", "bin"}

\* the end of both freshness checks (project_importer.py lines 273-280,
\* rust_file_importer.py lines 232-237): the messages logged
LogCachedWarnings(show_warnings, maturin_output) ==
    IF show_warnings /\ maturin_output_has_warnings(maturin_output)
    THEN <<[level |-> "WARNING", prefix |-> "the last ", output |-> maturin_output]>>
    ELSE <<>>

\* after the build (project_importer.py lines 199-200,
\* rust_file_importer.py lines 168-169): the messages logged
LogBuildWarnings(show_warnings, maturin_output) ==
    IF show_warnings /\ maturin_output_has_warnings(maturin_output)
    THEN <<[level |-> "WARNING", prefix |-> "", output |-> maturin_output]>>
    ELSE <<>>

NoArtifact == [mtime |-> NoMtime, output |-> NoneStr]
NoAttempt ==
    [outcome |-> "none", show_warnings |-> FALSE, cached_output |-> NoneStr,
     artifact_output |-> NoneStr, logged |-> <<>>]

\* the values the freshness check of the finder reads in state w
WarningsCheckInputs(s, w) ==
    [force_rebuild |-> FALSE,
     spec_found |-> w.artifact # NoArtifact,
     installed_package_root |-> IF w.artifact = NoArtifact THEN "" ELSE "artifact",
     installed_package_mtime |-> w.artifact.mtime,
     project_mtime |-> IF s = ProjectModule
                       THEN Max2(w.source_mtime, w.artifact.mtime)
                       ELSE w.source_mtime,
     build_status |-> w.status,
     source_path |-> SourcePath(s),
     maturin_args |-> to_args(DefaultSettings)]

WarningsInit ==
    /\ HookLockInit
    /\ lockKind = "FcntlFileLock"
    /\ HookInit
    /\ ~force_rebuild
    /\ focus = ProjectModule
    /\ oin \in Sources
    /\ oout = [now |-> 0, source_mtime |-> Epoch, artifact |-> NoArtifact,
               status |-> NoStatus, last |-> NoAttempt]
    /\ cache_op = NoCacheOp

\* find_spec of an interpreter whose finder has show_warnings; when it comes
\* to a build, the build tool ends with res and prints output
ImportWithWarnings(show_warnings, res, output) ==
    /\ LET s == oin
           fresh == CheckFreshness(s, WarningsCheckInputs(s, oout)).spec
           attempt == [NoAttempt EXCEPT !.show_warnings = show_warnings,
                                        !.cached_output = oout.status.maturin_output,
                                        !.artifact_output = oout.artifact.output]
       IN  oout' =
             IF fresh
             THEN [oout EXCEPT !.last =
                     [attempt EXCEPT !.outcome = "fresh",
                                     !.logged = LogCachedWarnings(
                                                    show_warnings,
                                                    oout.status.maturin_output)]]
             ELSE IF res = "failed"
             THEN [oout EXCEPT !.artifact = IF s = RustFileModule THEN NoArtifact ELSE @,
                               !.last = [attempt EXCEPT !.outcome = "build_failed"]]
             ELSE IF res = "misplaced"
             THEN [oout EXCEPT !.artifact = IF s = RustFileModule THEN NoArtifact ELSE @,
                               !.last = [attempt EXCEPT
                                            !.outcome = "load_failed",
                                            !.logged = LogBuildWarnings(show_warnings,
                                                                        output)]]
             ELSE [oout EXCEPT !.artifact = [mtime |-> Epoch + oout.now,
                                             output |-> output],
                               !.status = [build_mtime |-> Epoch + oout.now,
                                           source_path |-> SourcePath(s),
                                           maturin_args |-> to_args(DefaultSettings),
                                           maturin_output |-> output],
                               !.last = [attempt EXCEPT
                                            !.outcome = "built",
                                            !.artifact_output = output,
                                            !.logged = LogBuildWarnings(show_warnings,
                                                                        output)]]
    /\ UNCHANGED <<oin, cache_op, pc>>
    /\ UNCHANGED lockVars
    /\ UNCHANGED hookVars

\* a second later the user saves the source
SaveSource ==
    /\ oout.now < MaxClock
    /\ oout' = [oout EXCEPT !.now = @ + 1, !.source_mtime = Epoch + oout.now + 1]
    /\ UNCHANGED <<oin, cache_op, pc>>
    /\ UNCHANGED lockVars
    /\ UNCHANGED hookVars

\* a second later the user installs the project without the hook
\* (maturin develop); the build prints output
InstallWithoutHook(output) ==
    /\ oin = ProjectModule
    /\ oout.now < MaxClock
    /\ oout' = [oout EXCEPT !.now = @ + 1,
                            !.artifact = [mtime |-> Epoch + oout.now + 1,
                                          output |-> output]]
    /\ UNCHANGED <<oin, cache_op, pc>>
    /\ UNCHANGED lockVars
    /\ UNCHANGED hookVars

WarningsNext ==
    \/ \E show_warnings \in BOOLEAN, res \in BuildResults, output \in Outputs :
          ImportWithWarnings(show_warnings, res, output)
    \/ SaveSource
    \/ \E output \in Outputs : InstallWithoutHook(output)

SpecWarnings == WarningsInit /\ [][WarningsNext]_vars

(***************************************************************************)
(* SpecAttempt: interpreters import one source concurrently, with the      *)
(* default settings, through one build cache whose lock has the default    *)
(* timeout.  A run of the build tool can end in every way, among them with *)
(* exit status 0 and nothing installed.                                    *)
(***************************************************************************)

\* exit status 0, but nothing the finder looks for was installed
NotInstalled == "not_installed"

\* a finder that has one message for every ImportError
ImportErrorMessages_OneMessage(s, ending) == {"Failed to build package with maturin"}

\* the messages of the ImportError an attempt on source s can end with:
\*   build_failed  develop_build_project (_building.py line 201), build_wheel
\*                 (line 183)
\*   load_failed   _rebuild_project (project_importer.py line 204);
\*                 build_unpacked_wheel (_building.py line 239) when there is
\*                 no wheel, _find_extension_module (rust_file_importer.py
\*                 line 261) when the wheel does not hold the module
ImportErrorMessages(s, ending) ==
    IF ending = "build_failed"
    THEN IF s = ProjectModule THEN {"Failed to build package with maturin"}
         ELSE {"Failed to build wheel with maturin"}
    ELSE IF ending = "load_failed"
    THEN IF s = ProjectModule
         THEN {"cannot find package \"" \o ProjectModule \o "\" after installation"}
         ELSE {"failed to generate wheel",
               "could not find module \"" \o RustFileModule \o "\" in \""
                   \o JoinPath(FileInfo["script_so"].root, FileInfo["script_so"].dirs)
                   \o "\""}
    ELSE {}

AttemptInit ==
    /\ Init
    /\ ~force_rebuild

AttemptNext ==
    \/ \E p \in Procs : StartImport(p, focus, DefaultSettings)
    \/ \E p \in Procs : LockStep(p)
    \/ \E p \in Procs : CheckUpToDate(p)
    \/ \E p \in Procs : BuildStart(p)
    \/ \E p \in Procs, res \in BuildResults \cup {NotInstalled} : BuildEnd(p, res)
    \/ \E p \in Procs : PostBuild(p)
    \/ \E p \in Procs : Finish(p)

SpecAttempt == AttemptInit /\ [][AttemptNext]_vars

(***************************************************************************)
(* SpecVariants: the three FileLock subclasses side by side.  One lock     *)
(* path per subclass, one instance per process on each path, every         *)
(* instance with a finite timeout.  The same operation is issued to the    *)
(* same instance on every path, one operation at a time, each run to its   *)
(* end.  A lock path is a record: os_lock is the holder of the flock /     *)
(* msvcrt lock, file whether the lock file of an AtomicOpenLock exists.    *)
(* oout holds the three lock paths, the operations issued so far and what  *)
(* they ended with on each path.                                           *)
(***************************************************************************)
NewLockPath ==
    [os_lock |-> NoOwner, file |-> FALSE,
     is_locked |-> [i \in Procs |-> FALSE], fd |-> [i \in Procs |-> FALSE]]

\* try_acquire() of instance i of subclass kind, run to its end
try_acquire(kind, lock, i) ==
    IF lock.is_locked[i] THEN lock
    ELSE IF kind = "AtomicOpenLock"
    THEN IF lock.file THEN lock
         ELSE [lock EXCEPT !.file = TRUE, !.fd[i] = TRUE, !.is_locked[i] = TRUE]
    ELSE IF lock.os_lock \in {NoOwner, i}
    THEN [lock EXCEPT !.os_lock = i, !.is_locked[i] = TRUE]
    ELSE lock

\* release() of instance i, run to its end
release(kind, lock, i) ==
    IF ~lock.is_locked[i] THEN lock
    ELSE IF kind = "AtomicOpenLock"
    THEN [lock EXCEPT !.fd[i] = FALSE, !.is_locked[i] = FALSE, !.file = FALSE]
    ELSE [lock EXCEPT !.os_lock = IF @ = i THEN NoOwner ELSE @,
                      !.is_locked[i] = FALSE]

\* acquire() of instance i while no other instance acts: LockError when the
\* instance is locked, else the lock or, when every attempt until the
\* timeout fails, TimeoutError
acquire(kind, lock, i) ==
    IF lock.is_locked[i] THEN [lock |-> lock, outcome |-> "LockError"]
    ELSE IF try_acquire(kind, lock, i).is_locked[i]
    THEN [lock |-> try_acquire(kind, lock, i), outcome |-> "acquired"]
    ELSE [lock |-> lock, outcome |-> "TimeoutError"]

\* the process of instance i is killed: no release() and no __del__ run, the
\* operating system closes its file descriptors and with them drops its
\* flock / msvcrt lock; a new process with a new instance takes its place
terminate(kind, lock, i) ==
    [lock EXCEPT !.os_lock = IF @ = i THEN NoOwner ELSE @,
                 !.fd[i] = FALSE, !.is_locked[i] = FALSE]

VariantsInit ==
    /\ HookLockInit
    /\ lockKind = "FcntlFileLock"
    /\ HookInit
    /\ ~force_rebuild
    /\ focus = ProjectModule
    /\ oin = NoOracleInput
    /\ oout = [locks |-> [kind \in LockKinds |-> NewLockPath],
               operations |-> <<>>,
               outcomes |-> [kind \in LockKinds |-> <<>>]]
    /\ cache_op = NoCacheOp

\* the same operation on instance i of every subclass: the lock paths
\* afterwards and how the operation ended on each
Issue(operation, i, after) ==
    /\ Len(oout.operations) < MaxCalls
    /\ oout' = [locks |-> [kind \in LockKinds |-> after[kind].lock],
                operations |-> Append(oout.operations, <<operation, i>>),
                outcomes |-> [kind \in LockKinds |->
                                 Append(oout.outcomes[kind], after[kind].outcome)]]
    /\ UNCHANGED <<oin, cache_op, pc>>
    /\ UNCHANGED lockVars
    /\ UNCHANGED hookVars

\* lock.acquire()
VariantsAcquire(i) ==
    Issue("acquire", i, [kind \in LockKinds |-> acquire(kind, oout.locks[kind], i)])

\* lock.try_acquire()
VariantsTryAcquire(i) ==
    Issue("try_acquire", i,
          [kind \in LockKinds |->
              [lock |-> try_acquire(kind, oout.locks[kind], i), outcome |-> "returned"]])

\* lock.release()
VariantsRelease(i) ==
    Issue("release", i,
          [kind \in LockKinds |->
              [lock |-> release(kind, oout.locks[kind], i), outcome |-> "returned"]])

\* the process of instance i is killed
VariantsTerminate(i) ==
    Issue("terminate", i,
          [kind \in LockKinds |->
              [lock |-> terminate(kind, oout.locks[kind], i), outcome |-> "killed"]])

VariantsNext ==
    \/ \E i \in Procs : VariantsAcquire(i)
    \/ \E i \in Procs : VariantsTryAcquire(i)
    \/ \E i \in Procs : VariantsRelease(i)
    \/ \E i \in Procs : VariantsTerminate(i)

SpecVariants == VariantsInit /\ [][VariantsNext]_vars

(***************************************************************************)
(* SpecInstall: install() and uninstall() of the two finder modules and of *)
(* the package (project_importer.py lines 522-580, rust_file_importer.py   *)
(* lines 274-323, __init__.py lines 11-72), called one after the other in  *)
(* one interpreter.  oout holds sys.meta_path, the IMPORTER global of each *)
(* module, the number of finders constructed so far and the calls made; a  *)
(* finder is the module that made it and its serial number.                *)
(***************************************************************************)
FinderModules == {"project_importer", "rust_file_importer"}

\* IMPORTER = None
NoFinder == [module |-> "None", serial |-> 0]

\* sys.meta_path of an interpreter before any hook is installed
DefaultMetaPath ==
    <<[module |-> "BuiltinImporter", serial |-> 0],
      [module |-> "FrozenImporter", serial |-> 0],
      [module |-> "PathFinder", serial |-> 0]>>

\* what install() is given as build_dir: a directory in which the lock file
\* can be created, or one in which it cannot (no permission, a parent that
\* is a file)
BuildDirs == {"usable", "unusable"}

\* MaturinProjectImporter(...) / MaturinRustFileImporter(...): BuildCache
\* creates the lock with FileLock.new; the constructors of FcntlFileLock and
\* WindowsFileLock create and open the lock file, AtomicOpenLock's does not
\* touch the file system.
NewImporter(module, serial, kind, build_dir) ==
    IF build_dir = "unusable" /\ kind # "AtomicOpenLock"
    THEN Raised("OSError")
    ELSE [module |-> module, serial |-> serial]

\* with contextlib.suppress(ValueError): sys.meta_path.remove(finder)
RemoveSuppressed(meta_path, finder) ==
    IF \E i \in DOMAIN meta_path : meta_path[i] = finder
    THEN LET first == CHOOSE i \in DOMAIN meta_path :
                        /\ meta_path[i] = finder
                        /\ \A j \in 1..(i - 1) : meta_path[j] # finder
         IN [i \in 1..(Len(meta_path) - 1) |->
                IF i < first THEN meta_path[i] ELSE meta_path[i + 1]]
    ELSE meta_path

\* install() of a finder module: the hooks afterwards, and whether the call
\* raised
install(hooks, module, kind, build_dir) ==
    LET removed == IF hooks.IMPORTER[module] # NoFinder
                   THEN RemoveSuppressed(hooks.meta_path, hooks.IMPORTER[module])
                   ELSE hooks.meta_path
        importer == NewImporter(module, hooks.created + 1, kind, build_dir)
    IN IF HasRaised(importer)
       THEN [hooks EXCEPT !.meta_path = removed, !.raised = TRUE]
       ELSE [meta_path |-> <<importer>> \o removed,
             IMPORTER |-> [hooks.IMPORTER EXCEPT ![module] = importer],
             created |-> hooks.created + 1,
             raised |-> FALSE]

\* uninstall() of a finder module
uninstall(hooks, module) ==
    IF hooks.IMPORTER[module] # NoFinder
    THEN [hooks EXCEPT
            !.meta_path = RemoveSuppressed(hooks.meta_path, hooks.IMPORTER[module]),
            !.IMPORTER = [hooks.IMPORTER EXCEPT ![module] = NoFinder],
            !.raised = FALSE]
    ELSE [hooks EXCEPT !.raised = FALSE]

\* maturin.import_hook.install: the rust file importer first, then the
\* project importer; an exception of the first ends the call
import_hook_install(hooks, enable_project_importer, enable_rs_file_importer, kind, build_dir) ==
    LET rs == IF enable_rs_file_importer
              THEN install(hooks, "rust_file_importer", kind, build_dir)
              ELSE [hooks EXCEPT !.raised = FALSE]
    IN IF rs.raised \/ ~enable_project_importer THEN rs
       ELSE install(rs, "project_importer", kind, build_dir)

\* maturin.import_hook.uninstall
import_hook_uninstall(hooks) ==
    uninstall(uninstall(hooks, "project_importer"), "rust_file_importer")

InstallInit ==
    /\ HookLockInit
    /\ HookInit
    /\ ~force_rebuild
    /\ focus = ProjectModule
    /\ oin = NoOracleInput
    /\ oout = [hooks |-> [meta_path |-> DefaultMetaPath,
                          IMPORTER |-> [module \in FinderModules |-> NoFinder],
                          created |-> 0,
                          raised |-> FALSE],
               before |-> <<>>,
               calls |-> <<>>]
    /\ cache_op = NoCacheOp

\* one call made by the program: the hooks before it are kept in `before`
Call(name, after) ==
    /\ Len(oout.calls) < MaxCalls
    /\ oout' = [hooks |-> after,
                before |-> Append(oout.before, oout.hooks),
                calls |-> Append(oout.calls, name)]
    /\ UNCHANGED <<oin, cache_op, pc>>
    /\ UNCHANGED lockVars
    /\ UNCHANGED hookVars

\* project_importer.install(build_dir=...) / rust_file_importer.install(...)
ModuleInstall(module, build_dir) ==
    Call(<<"install", module>>, install(oout.hooks, module, lockKind, build_dir))

\* project_importer.uninstall() / rust_file_importer.uninstall()
ModuleUninstall(module) ==
    Call(<<"uninstall", module>>, uninstall(oout.hooks, module))

\* maturin.import_hook.install(enable_project_importer=..., ...)
PackageInstall(enable_project_importer, enable_rs_file_importer, build_dir) ==
    Call(<<"install", "import_hook">>,
         import_hook_install(oout.hooks, enable_project_importer,
                             enable_rs_file_importer, lockKind, build_dir))

\* maturin.import_hook.uninstall()
PackageUninstall ==
    Call(<<"uninstall", "import_hook">>, import_hook_uninstall(oout.hooks))

InstallNext ==
    \/ \E module \in FinderModules, build_dir \in BuildDirs :
          ModuleInstall(module, build_dir)
    \/ \E module \in FinderModules : ModuleUninstall(module)
    \/ \E project, rs \in BOOLEAN, build_dir \in BuildDirs :
          PackageInstall(project, rs, build_dir)
    \/ PackageUninstall

SpecInstall == InstallInit /\ [][InstallNext]_vars

(***************************************************************************)
(* Properties.                                                             *)
(***************************************************************************)

\* C1 (SpecLock): for every lock variant and every interleaving of the steps
\* of acquire, try_acquire and release by lock instances on the same path in
\* different processes, no two instances have is_locked = True at once.
C1_NoTwoLocked ==
    \A i, j \in Procs : i # j => ~(is_locked[i] /\ is_locked[j])

\* C2 (SpecRace): of the processes that concurrently import a never-built
\* source with the same settings, exactly one runs the build tool: the tool
\* is started at most once per source, a process that checks after that start
\* finds the stored BuildStatus valid (its check returns a spec) and a
\* process never returns the existing module before the one build.
C2_ExactlyOneBuild ==
    \A s \in Sources :
        /\ builds[s] <= 1
        /\ \A p \in Procs :
              (/\ importing[p] = s
               /\ result[p].steps > 0
               /\ builds[s] = 1
               /\ pc[p] \notin {"in_build", "post"}
               /\ outcome[p] # "built")
              => result[p].spec
        /\ \A p \in Procs :
              (importing[p] = s /\ outcome[p] = "fresh") => builds[s] = 1

\* C2 witness: one process has built the source and released the lock, another
\* one has taken the lock after it and returns the module without a build.
C2_Witness ==
    \E p, q \in Procs :
        /\ p # q
        /\ importing[p] = importing[q]
        /\ outcome[p] = "built" /\ pc[p] = "rel_done"
        /\ outcome[q] = "fresh" /\ result[q].spec
        /\ builds[importing[p]] = 1

\* C3 (SpecRace): among the processes that share the build cache directory at
\* most one is inside a run of the build tool, whatever sources they build.
C3_OneBuildAtATime ==
    Cardinality({p \in Procs : pc[p] = "in_build"}) <= 1

\* C3 witness: a process is inside the build tool while a process importing
\* another source has failed to take the lock and waits.
C3_Witness ==
    \E p, q \in Procs :
        /\ pc[p] = "in_build"
        /\ pc[q] = "acq_failed"
        /\ importing[q] \in Sources \ {importing[p]}

\* C4 (Spec): every call of get_build_status, store_build_status and
\* tmp_project_dir a finder makes happens while the lock instance of the
\* calling process has is_locked = True.
C4_CacheCallsUnderLock ==
    \A p \in Procs : cache_calls[p].locked

\* C4 witness: a find_spec of the rust file finder has called all three
\* methods, one of the project finder has read and stored a build status.
C4_Witness ==
    \E p \in Procs :
        \/ cache_calls[p].calls = {"tmp_project_dir", "get_build_status", "store_build_status"}
        \/ /\ importing[p] = ProjectModule
           /\ cache_calls[p].calls = {"get_build_status", "store_build_status"}

\* C5 (Spec): of two successive attempts to import a never-built source
\* with the same settings and nothing modified in between, the first builds
\* and stores a BuildStatus and the second finds the source fresh and does
\* not build.  Step by step, with force_rebuild unset:
\*   - the check of an attempt on a source that was never built sends the
\*     attempt to the build tool;
\*   - when the first build has just installed the artifact, the finder
\*     stores a BuildStatus, and the check of the same settings in the state
\*     it leaves returns a spec;
\*   - a check that returns a spec ends the attempt without a build.
C5_BuildOnceThenFresh ==
    [][\A p \in Procs :
        LET s == importing[p]
            checks == pc[p] = "acq_done" /\ pc'[p] \in {"build", "rel_enter"}
            stores == pc[p] = "post" /\ pc'[p] = "rel_enter"
            installed == \A f \in ArtifactFiles(s) : fs[f] = Epoch + now
        IN ~force_rebuild =>
            /\ (checks /\ builds[s] = 0) => (pc'[p] = "build" /\ ~result'[p].spec)
            /\ (stores /\ builds[s] = 1 /\ installed) =>
                  /\ "store_build_status" \in cache_calls'[p].calls
                  /\ get_build_status(build_status, SourcePath(s))' # NoStatus
                  /\ CheckFreshness(s, CheckInputs(s, FALSE, settings[p]))'.spec
            /\ (checks /\ CheckFreshness(s, CheckInputs(s, FALSE, settings[p])).spec) =>
                  /\ pc'[p] = "rel_enter"
                  /\ outcome'[p] = "fresh"
                  /\ builds' = builds
      ]_vars

\* C5 witness: nothing was modified, the source was built once, and an
\* attempt after the build has found it fresh.
C5_Witness ==
    \E p \in Procs :
        /\ ~force_rebuild
        /\ now = 0
        /\ builds[focus] = 1
        /\ importing[p] = focus
        /\ outcome[p] = "fresh"
        /\ pc[p] = "rel_done"

\* C6 (Spec): when a file of the project tree or of a path dependency,
\* outside the excluded directories and the installed artifact, (the .rs file
\* for the rust file finder) is newer than the installed artifact of a built
\* source, the next attempt rebuilds, and the attempt after it does not.
\* Step by step, with force_rebuild unset:
\*   - the check of a built source with such a file sends the attempt to the
\*     build tool, the reason being that the package / module is out of date;
\*   - when the rebuild has just installed the artifact, the finder stores a
\*     BuildStatus, and the check of the same settings in the state it leaves
\*     returns a spec.
C6_RebuildOnNewerSource ==
    [][\A p \in Procs :
        LET s == importing[p]
            checks == pc[p] = "acq_done" /\ pc'[p] \in {"build", "rel_enter"}
            stores == pc[p] = "post" /\ pc'[p] = "rel_enter"
            installed == \A f \in ArtifactFiles(s) : fs[f] = Epoch + now
            built == builds[s] >= 1 /\ \A f \in ArtifactFiles(s) : Exists(f)
            artifact == IF s = ProjectModule THEN "ext_so" ELSE "script_so"
            tracked == IF s = ProjectModule THEN {"lib_rs", "dep_rs"} ELSE {"script_rs"}
            outOfDate == {"package is out of date", "module is out of date"}
        IN ~force_rebuild =>
            /\ (checks /\ built /\ \E f \in tracked : fs[f] > fs[artifact]) =>
                  /\ pc'[p] = "build"
                  /\ result'[p].reason \in outOfDate
            /\ (stores /\ result[p].reason \in outOfDate /\ installed) =>
                  /\ "store_build_status" \in cache_calls'[p].calls
                  /\ CheckFreshness(s, CheckInputs(s, FALSE, settings[p]))'.spec
      ]_vars

\* C6 witness: a rebuild made because the source was out of date has stored
\* its BuildStatus, and the source is fresh now.
C6_Witness ==
    \E p \in Procs :
        /\ ~force_rebuild
        /\ importing[p] = focus
        /\ result[p].reason \in {"package is out of date", "module is out of date"}
        /\ outcome[p] = "built"
        /\ builds[focus] = 2
        /\ "store_build_status" \in cache_calls[p].calls
        /\ CheckFreshness(focus, CheckInputs(focus, FALSE, settings[p])).spec

\* C7 (Spec): when only the settings change between two attempts on a built
\* and otherwise unmodified source, so that to_args() differs from the stored
\* arguments, the second attempt rebuilds with the reason 'current maturin
\* args do not match the previous build' and a further attempt with the new
\* settings does not build.  Step by step, with force_rebuild unset:
\*   - the check of a source that is fresh for the stored arguments, made
\*     with other arguments, sends the attempt to the build tool with that
\*     reason;
\*   - when that rebuild has just installed the artifact, the finder stores a
\*     BuildStatus, and the check of the new settings in the state it leaves
\*     returns a spec.
C7_RebuildOnSettingsChange ==
    [][\A p \in Procs :
        LET s == importing[p]
            checks == pc[p] = "acq_done" /\ pc'[p] \in {"build", "rel_enter"}
            stores == pc[p] = "post" /\ pc'[p] = "rel_enter"
            installed == \A f \in ArtifactFiles(s) : fs[f] = Epoch + now
            stored == get_build_status(build_status, SourcePath(s))
            in == CheckInputs(s, FALSE, settings[p])
            argsReason == "current maturin args do not match the previous build"
        IN ~force_rebuild =>
            /\ (/\ checks
                /\ stored # NoStatus
                /\ stored.maturin_args # to_args(settings[p])
                /\ \E old \in SettingsChoices :
                      /\ to_args(old) = stored.maturin_args
                      /\ CheckFreshness(s, CheckInputs(s, FALSE, old)).spec) =>
                  /\ pc'[p] = "build"
                  /\ result'[p].reason = argsReason
            /\ (stores /\ result[p].reason = argsReason /\ installed) =>
                  /\ "store_build_status" \in cache_calls'[p].calls
                  /\ get_build_status(build_status, SourcePath(s))'.maturin_args
                        = to_args(settings[p])
                  /\ CheckFreshness(s, in)'.spec
      ]_vars

\* C7 witness: a rebuild made because the arguments changed has stored its
\* BuildStatus, no file was modified, and the source is fresh for the new
\* settings.
C7_Witness ==
    \E p \in Procs :
        /\ ~force_rebuild
        /\ now = 0
        /\ importing[p] = focus
        /\ result[p].reason = "current maturin args do not match the previous build"
        /\ outcome[p] = "built"
        /\ builds[focus] = 2
        /\ CheckFreshness(focus, CheckInputs(focus, FALSE, settings[p])).spec

\* C8 (SpecOracle): the check of the project finder returns a spec and no
\* reason exactly when force_rebuild is unset, the installed package is found
\* (its spec and its root), its mtime can be computed, the project mtime can
\* be computed and is not later than the installed mtime, a BuildStatus is
\* stored, its source_path is the project directory, its build_mtime is close
\* to the installed mtime and its arguments are those of the settings; in
\* every other case it returns no spec and a reason.  So a project mtime later
\* than the installed mtime gives no spec whatever the BuildStatus is.
C8_FreshIff ==
    (oin.finder = ProjectModule /\ oout # NoResult) =>
        /\ oout.spec <=>
              /\ ~oin.force_rebuild
              /\ oin.spec_found /\ oin.installed_package_root # ""
              /\ oin.installed_package_mtime # NoMtime
              /\ oin.project_mtime # NoMtime
              /\ oin.installed_package_mtime >= oin.project_mtime
              /\ oin.build_status # NoStatus
              /\ oin.build_status.source_path = oin.source_path
              /\ IsClose(oin.build_status.build_mtime, oin.installed_package_mtime)
              /\ oin.build_status.maturin_args = oin.maturin_args
        /\ oout.spec <=> oout.reason = NoneStr
        /\ oin.project_mtime > oin.installed_package_mtime => ~oout.spec

\* C8 witness: the check has returned a spec for a package whose mtime is
\* close to, but not the same as, the stored build_mtime.
C8_Witness ==
    /\ oin.finder = ProjectModule
    /\ oout.spec
    /\ oin.build_status.build_mtime # oin.installed_package_mtime

\* C9 (SpecOracle): the checks of both finders stop at the first check that
\* fails, in the order force rebuild (1), artifact not installed (2),
\* installed mtime not computable (3), project mtime not computable or
\* package out of date (4), no build status (5), source path mismatch (6),
\* installed mtime does not match the build status (7), arguments mismatch
\* (8), and, in the rust file finder only, no spec for the module (9).  The
\* reason returned is the reason of the earliest kind of check that fails, no
\* check after the one that gave the reason is evaluated, and no two checks
\* of a finder give the same reason.
C9_ShortCircuit ==
    oout # NoResult =>
        LET project == oin.finder = ProjectModule
            reasons ==
                IF project
                THEN <<"forcing rebuild",
                       "package not already installed",
                       "could not find installed package root",
                       "could not get installed package mtime",
                       "package is out of date",
                       "no build status found",
                       "source path in build status does not match the project dir",
                       "installed package mtime does not match build status mtime",
                       "current maturin args do not match the previous build">>
                ELSE <<"forcing rebuild",
                       "already built module not found",
                       "module is out of date",
                       "no build status found",
                       "source path in build status does not match the project dir",
                       "installed package mtime does not match build status mtime",
                       "current maturin args do not match the previous build",
                       "module not found">>
            kind == IF project THEN <<1, 2, 2, 3, 4, 5, 6, 7, 8>>
                    ELSE <<1, 2, 4, 5, 6, 7, 8, 9>>
            fails ==
                <<oin.force_rebuild,
                  IF project THEN ~oin.spec_found \/ oin.installed_package_root = ""
                  ELSE oin.installed_package_root = "",
                  project /\ oin.installed_package_mtime = NoMtime,
                  \/ project /\ oin.project_mtime = NoMtime
                  \/ oin.installed_package_mtime < oin.project_mtime,
                  oin.build_status = NoStatus,
                  oin.build_status.source_path # oin.source_path,
                  ~IsClose(oin.build_status.build_mtime, oin.installed_package_mtime),
                  oin.build_status.maturin_args # oin.maturin_args,
                  ~project /\ ~oin.spec_found>>
            failing == {k \in 1..Len(fails) : fails[k]}
        IN /\ \A i, j \in 1..Len(reasons) : i # j => reasons[i] # reasons[j]
           /\ oout.spec <=> failing = {}
           /\ ~oout.spec =>
                 \E k \in 1..Len(reasons) :
                     /\ oout.reason = reasons[k]
                     /\ oout.steps = k
                     /\ kind[k] = SetMin(failing)

\* C9 witness: two checks fail at once, the package is out of date and no
\* build status is stored, and the reason returned is that of the earlier.
C9_Witness ==
    /\ oout.reason \in {"package is out of date", "module is out of date"}
    /\ oin.build_status = NoStatus
    /\ oin.maturin_args # oin.build_status.maturin_args

\* C10 (Spec): with force_rebuild set the check returns 'forcing rebuild'
\* whatever the files and the cache are, so that every attempt that gets to
\* the check goes on to the build tool, and the BuildStatus stored after the
\* build replaces the record of the source, also when the record already held
\* the same values.
C10_ForceRebuild ==
    [][\A p \in Procs :
        LET s == importing[p]
            checks == pc[p] = "acq_done" /\ pc'[p] \in {"build", "rel_enter"}
            stores == /\ pc[p] = "post" /\ pc'[p] = "rel_enter"
                      /\ "store_build_status" \in cache_calls'[p].calls
            artifact == IF s = ProjectModule THEN "ext_so" ELSE "script_so"
        IN force_rebuild =>
            /\ checks =>
                  /\ result'[p] = Stale("forcing rebuild", 1)
                  /\ pc'[p] = "build"
                  /\ "get_build_status" \notin cache_calls'[p].calls
            /\ stores =>
                  build_status'[BuildStatusPath(SourcePath(s))] =
                      [build_mtime |-> fs[artifact],
                       source_path |-> StrOfPath(SourcePath(s)),
                       maturin_args |-> to_args(settings[p]),
                       maturin_output |-> BuildOutput]
      ]_vars

\* C10 witness: with force_rebuild set, a source that was fresh has been
\* built a second time in the same second with the same settings, and its
\* BuildStatus has been stored again.
C10_Witness ==
    \E p \in Procs :
        /\ force_rebuild
        /\ now = 0
        /\ builds[focus] = 2
        /\ importing[p] = focus
        /\ outcome[p] = "built"
        /\ "store_build_status" \in cache_calls[p].calls
        /\ CheckFreshness(focus, CheckInputs(focus, FALSE, settings[p])).spec

(***************************************************************************)
(* C11: for every valid BuildStatus s, get_build_status(s.source_path)     *)
(* called after store_build_status(s), with no other store for the path    *)
(* in between, returns a BuildStatus equal to s in all four fields; and    *)
(* get_build_status of a source path that was never stored returns None.   *)
(* (The record files are those the cache wrote: a path whose file was      *)
(* damaged from outside is left out.)                                      *)
(***************************************************************************)
C11_StoreGetRoundTrip ==
    cache_op.op = "get" =>
        LET last == cache_op.written[BuildStatusPath(cache_op.source_path)]
        IN /\ last \in ValidStatuses =>
                  /\ cache_op.value.build_mtime = last.build_mtime
                  /\ cache_op.value.source_path = last.source_path
                  /\ cache_op.value.maturin_args = last.maturin_args
                  /\ cache_op.value.maturin_output = last.maturin_output
           /\ last = NoStatus => cache_op.value = NoStatus

\* a status is read back while another path holds a record stored after it
C11_Witness ==
    /\ cache_op.op = "get"
    /\ cache_op.value \in ValidStatuses
    /\ cache_op.value = cache_op.written[BuildStatusPath(cache_op.source_path)]
    /\ \E path \in StatusPaths :
          /\ path # BuildStatusPath(cache_op.source_path)
          /\ cache_op.written[path] \in ValidStatuses

(***************************************************************************)
(* C12: store_build_status(s) changes exactly the record of s.source_path: *)
(* it replaces any record previously stored for that path (the old value   *)
(* is no longer returned), and the records of every other source path are  *)
(* left unchanged.                                                         *)
(***************************************************************************)
C12_StoreFrame ==
    [][(cache_op'.op = "store" /\ cache_op' # cache_op) =>
          LET st == cache_op'.status
              old == get_build_status(build_status, st.source_path)
          IN /\ get_build_status(build_status', st.source_path) = st
             /\ old # st => get_build_status(build_status', st.source_path) # old
             /\ \A path \in StatusPaths \ {BuildStatusPath(st.source_path)} :
                    build_status'[path] = build_status[path]
             /\ \A s \in Sources : SourcePath(s) # st.source_path =>
                    get_build_status(build_status', SourcePath(s))
                        = get_build_status(build_status, SourcePath(s))
             /\ fs' = fs]_vars

\* a record is stored over a different record of the same path while the
\* other path holds a record
C12_Witness ==
    /\ cache_op.op = "store"
    /\ cache_op.previous \in ValidStatuses
    /\ cache_op.previous # cache_op.status
    /\ get_build_status(build_status, cache_op.status.source_path) = cache_op.status
    /\ \E path \in StatusPaths :
          /\ path # BuildStatusPath(cache_op.status.source_path)
          /\ cache_op.written[path] \in ValidStatuses

(***************************************************************************)
(* C13: get_build_status never raises because of the record's content:    *)
(* when the record file of a source path is absent, or present but         *)
(* malformed (no JSON, or lacking a required field), it returns None.      *)
(* The code catches FileNotFoundError and KeyError only, so a record file  *)
(* that is no JSON makes json.load raise JSONDecodeError out of            *)
(* get_build_status: the property is violated.                             *)
(***************************************************************************)
C13_MalformedIsCacheMiss ==
    cache_op.op = "get" =>
        LET content == build_status[BuildStatusPath(cache_op.source_path)]
        IN (\/ content = NoFile
            \/ "text" \in DOMAIN content
            \/ /\ "build_mtime" \in DOMAIN content
               /\ ~(StatusKeys \subseteq DOMAIN content)) =>
               /\ ~HasRaised(cache_op.value)
               /\ cache_op.value = NoStatus

(***************************************************************************)
(* C14: if another instance holds the lock on the same path for the whole  *)
(* configured timeout, acquire() on a second instance raises a timeout     *)
(* error: it neither returns successfully nor blocks forever, the second   *)
(* instance's is_locked stays False, and the holder's lock state is        *)
(* unaffected.  With timeout None, acquire() never raises a timeout error. *)
(*   - an instance whose attempt failed and that has a timeout reaches     *)
(*     the timeout error unless the lock becomes free for it before;       *)
(*   - the instance that raised is in its raise, unlocked, and has a       *)
(*     timeout configured;                                                 *)
(*   - the step that raises changes no lock state of any instance.         *)
(***************************************************************************)
C14_TimeoutWhileHeld ==
    /\ \A i \in Procs :
          (pc[i] = "acq_failed" /\ timeout_seconds # "None")
              ~> (outcome[i] = "TimeoutError" \/ SysLockSucceeds(i))
    /\ [](\A i \in Procs :
            outcome[i] = "TimeoutError" =>
                /\ pc[i] = "acq_raise"
                /\ ~is_locked[i]
                /\ timeout_seconds # "None")
    /\ [][\A i \in Procs :
            (outcome'[i] = "TimeoutError" /\ outcome[i] # "TimeoutError") =>
                /\ pc[i] = "acq_failed"
                /\ UNCHANGED <<osLock, lockFile, fd, is_locked>>]_vars

\* the second instance has raised the timeout error while the first one is
\* locked and owns the lock
C14_Witness ==
    \E i, j \in Procs :
        /\ i # j
        /\ outcome[i] = "TimeoutError"
        /\ ~is_locked[i]
        /\ is_locked[j]
        /\ pc[j] = "idle"
        /\ ~SysLockSucceeds(i)

(***************************************************************************)
(* C15: when the build cache lock stays held by another process for longer *)
(* than lock_timeout_seconds, the import attempt fails with a timeout      *)
(* error propagated out of find_spec; the failing process never invokes    *)
(* the build tool and never reads or writes a build-status record during   *)
(* that attempt.                                                           *)
(*   - a process with the timeout error is in the raise of acquire(),      *)
(*     inside its attempt, unlocked, without a freshness check made and    *)
(*     without any call on the cache;                                      *)
(*   - the error is raised after a failed try_acquire, and the only step   *)
(*     the process takes after it is the end of find_spec, which leaves    *)
(*     the records, the files and the number of builds as they are.        *)
(***************************************************************************)
C15_LockTimeoutFailsImport ==
    /\ [](\A p \in Procs :
            outcome[p] = "TimeoutError" =>
                /\ pc[p] = "acq_raise"
                /\ importing[p] # NoModule
                /\ ~is_locked[p]
                /\ result[p] = NoResult
                /\ cache_calls[p] = NoCalls)
    /\ [][\A p \in Procs :
            /\ (outcome'[p] = "TimeoutError" /\ outcome[p] # "TimeoutError") =>
                   /\ pc[p] = "acq_failed"
                   /\ UNCHANGED <<build_status, fs, builds>>
            /\ (outcome[p] = "TimeoutError" /\ pc'[p] # pc[p]) =>
                   /\ pc'[p] = "idle"
                   /\ importing'[p] = NoModule
                   /\ UNCHANGED <<build_status, fs, builds>>]_vars

\* a process has timed out on the lock while another one, which holds it,
\* runs the build tool
C15_Witness ==
    \E p, q \in Procs :
        /\ p # q
        /\ outcome[p] = "TimeoutError"
        /\ importing[p] # NoModule
        /\ is_locked[q]
        /\ pc[q] = "in_build"

(***************************************************************************)
(* C16: acquire() called on a lock instance whose is_locked is already     *)
(* True raises LockError immediately, without waiting or polling, and      *)
(* leaves the instance locked.                                             *)
(*   - the call on a locked instance goes straight to the raise, with      *)
(*     LockError, and changes no lock state;                               *)
(*   - an instance with LockError is in the raise and locked, and its only *)
(*     next step is the return to the caller, still locked.                *)
(***************************************************************************)
C16_ReentrantAcquireRaises ==
    /\ [][\A i \in Procs :
            (pc[i] = "idle" /\ is_locked[i] /\ pc'[i] \notin {"idle", "try_enter", "rel_enter"}) =>
                /\ pc'[i] = "acq_raise"
                /\ outcome'[i] = "LockError"
                /\ UNCHANGED <<osLock, lockFile, fd, is_locked, first_attempt>>]_vars
    /\ [](\A i \in Procs :
            outcome[i] = "LockError" => pc[i] = "acq_raise" /\ is_locked[i])
    /\ [][\A i \in Procs :
            (outcome[i] = "LockError" /\ pc'[i] # pc[i]) =>
                pc'[i] = "idle" /\ is_locked'[i]]_vars

\* a locked instance has raised LockError
C16_Witness ==
    \E i \in Procs :
        /\ outcome[i] = "LockError"
        /\ pc[i] = "acq_raise"
        /\ is_locked[i]
        /\ SysLockSucceeds(i) \/ lockKind = "AtomicOpenLock"

(***************************************************************************)
(* C17: for every sequence of acquire(), release() and scoped uses on one  *)
(* lock instance, is_locked is True exactly when the last successful       *)
(* acquire has not yet been followed by a release; release() on an         *)
(* unlocked instance changes nothing and raises nothing, and a released    *)
(* lock can be acquired again.                                             *)
(*   - acquire() returns with the instance locked, release() returns with  *)
(*     it unlocked;                                                        *)
(*   - is_locked of an instance changes only where its own try_acquire     *)
(*     sets it after a successful system call, and where its own release() *)
(*     clears it: not by a failed or raising acquire(), not by a step of   *)
(*     another instance;                                                   *)
(*   - release() on an unlocked instance goes straight to its return, with *)
(*     no exception and no change of lock state;                           *)
(*   - when release() has released the lock and no other instance has it   *)
(*     or is taking it, the system call of the next try_acquire of the     *)
(*     instance succeeds.                                                  *)
(***************************************************************************)
C17_IsLockedIsNetState ==
    /\ [](\A i \in Procs :
            /\ pc[i] = "acq_done" => is_locked[i]
            /\ pc[i] = "rel_done" => ~is_locked[i] /\ outcome[i] = "none")
    /\ [][\A i \in Procs :
            /\ (~is_locked[i] /\ is_locked'[i]) => pc[i] \in {"acq_set", "try_set"}
            /\ (is_locked[i] /\ ~is_locked'[i]) => pc[i] \in {"rel_enter", "rel_set"}
            /\ (pc[i] = "rel_enter" /\ ~is_locked[i] /\ pc'[i] # pc[i]) =>
                   /\ pc'[i] = "rel_done"
                   /\ UNCHANGED <<osLock, lockFile, fd, is_locked, outcome>>
            /\ (/\ pc[i] \in {"rel_set", "rel_unlink"}
                /\ pc'[i] = "rel_done"
                /\ \A j \in Procs \ {i} :
                       ~is_locked[j] /\ pc[j] \notin {"acq_set", "try_set"}) =>
                   SysLockSucceeds(i)']_vars

\* release() is about to return on an instance that held the lock (the
\* attempt of another instance failed meanwhile); the instance is unlocked
\* and the lock is free again
C17_Witness ==
    \E i, j \in Procs :
        /\ i # j
        /\ pc[i] = "rel_done"
        /\ ~is_locked[i]
        /\ pc[j] = "acq_failed"
        /\ SysLockSucceeds(i)
        /\ \A k \in Procs : ~is_locked[k]

(***************************************************************************)
(* C18: if instance A holds the lock and instance B on the same path calls *)
(* acquire(), B does not become locked while A is locked; if A releases    *)
(* before B's timeout elapses, B's acquire() eventually returns with B     *)
(* locked (assuming B keeps being scheduled to poll).                      *)
(*   - no step makes B locked in a state where A is locked;                *)
(*   - when from some point on the lock stays free for B, an acquire() of  *)
(*     B in progress leads to its return with B locked, or to the timeout  *)
(*     error.                                                              *)
(* FcntlFileLock.release and WindowsFileLock.release unlock the file       *)
(* before they clear the flag: B becomes locked while A is still locked,   *)
(* the property is violated.                                               *)
(***************************************************************************)
C18_WaitsUntilReleased ==
    /\ [][\A a, b \in Procs :
            (a # b /\ is_locked[a] /\ is_locked'[a]) =>
                ~(~is_locked[b] /\ is_locked'[b])]_vars
    /\ \A b \in Procs :
          (<>[]SysLockSucceeds(b)) =>
              ((pc[b] \in {"acq_try", "acq_failed"})
                  ~> (\/ pc[b] = "acq_done" /\ is_locked[b]
                      \/ outcome[b] = "TimeoutError"))

(***************************************************************************)
(* C19: with the atomic-create fallback lock (AtomicOpenLock), if the lock *)
(* file is already on disk because a previous holder terminated without    *)
(* releasing, and no live instance holds the lock, acquire() by a new      *)
(* instance still succeeds: an acquire() in progress leads to the instance *)
(* being locked unless a live instance has the lock (holds it, is taking   *)
(* it or is removing its file).                                            *)
(* try_acquire only ever creates the file with O_CREAT | O_EXCL and takes  *)
(* EEXIST for "held": a file left behind makes every attempt fail, the     *)
(* property is violated.                                                   *)
(***************************************************************************)
C19_StaleLockFileTolerated ==
    \A i \in Procs :
        (lockKind = "AtomicOpenLock" /\ pc[i] = "acq_try")
            ~> (\/ is_locked[i]
                \/ \E j \in Procs \ {i} :
                      is_locked[j] \/ pc[j] \in {"acq_set", "try_set", "rel_unlink"})

(***************************************************************************)
(* C20: when the external build tool exits non-zero during an import       *)
(* attempt, the attempt raises ImportError out of find_spec, no            *)
(* BuildStatus is written (the cache record of that source is exactly what *)
(* it was before the attempt), and the build is not retried within that    *)
(* attempt; the next import attempt evaluates freshness again from scratch *)
(* and invokes the build again.  Step by step:                             *)
(*   - the build tool is started only out of a freshness check, and when   *)
(*     it exits the attempt either goes on to look for the built module or *)
(*     fails with the ImportError of the build, leaving the lock;          *)
(*   - the failing exit leaves every record as it is, and so does every    *)
(*     later step of the attempt, which makes no store call;               *)
(*   - a record changes only where an attempt whose build succeeded stores *)
(*     its BuildStatus;                                                    *)
(*   - in the state the failing exit leaves, and as long as the attempt    *)
(*     runs, the check of the same settings does not return a spec; the    *)
(*     check of an attempt is computed from the state it is made in, and   *)
(*     one that returns no spec sends the attempt to the build tool.       *)
(***************************************************************************)
C20_FailedBuildNotRecorded ==
    [][\A p \in Procs :
        LET s == importing[p]
            checks == pc[p] = "acq_done" /\ pc'[p] \in {"build", "rel_enter"}
            exits == pc[p] = "in_build" /\ pc'[p] # "in_build"
            fails == exits /\ pc'[p] # "post"
            failed == outcome[p] = "build_failed"
        IN /\ (pc'[p] = "build" /\ pc[p] # "build") => checks
           /\ fails =>
                 /\ pc'[p] = "rel_enter"
                 /\ outcome'[p] = "build_failed"
                 /\ build_status' = build_status
                 /\ builds' = builds
                 /\ "store_build_status" \notin cache_calls'[p].calls
                 /\ ~CheckFreshness(s, CheckInputs(s, force_rebuild, settings[p]))'.spec
           /\ failed =>
                 /\ pc[p] \in {"rel_enter", "rel_set", "rel_unlink", "rel_done"}
                 /\ pc'[p] \in {"rel_enter", "rel_set", "rel_unlink", "rel_done", "idle"}
                 /\ build_status' = build_status
                 /\ builds' = builds
                 /\ "store_build_status" \notin cache_calls[p].calls
                 /\ ~CheckFreshness(s, CheckInputs(s, force_rebuild, settings[p])).spec
           /\ (importing[p] # NoModule /\ build_status' # build_status) =>
                 pc[p] = "post" /\ outcome'[p] = "built"
           /\ checks =>
                 /\ result'[p] = CheckFreshness(s, CheckInputs(s, force_rebuild, settings[p]))
                 /\ ~result'[p].spec => pc'[p] = "build"
      ]_vars

\* the second build of a source has failed: the attempt ends with the
\* ImportError, the record of the first build is still the one returned and
\* the check of the same settings does not return a spec
C20_Witness ==
    \E p \in Procs :
        /\ outcome[p] = "build_failed"
        /\ pc[p] = "rel_done"
        /\ builds[focus] = 2
        /\ get_build_status(build_status, SourcePath(focus)) # NoStatus
        /\ ~CheckFreshness(focus, CheckInputs(focus, force_rebuild, settings[p])).spec

(***************************************************************************)
(* C24 as stated: for MaturinSettings, MaturinBuildSettings and            *)
(* MaturinDevelopSettings, every field that is unset (None), False, zero   *)
(* or an empty list / dict contributes no token to to_args() (the list is  *)
(* the one of the object with the field at its default); in particular a   *)
(* settings object with all defaults yields the empty list.                *)
(* color=False yields "--color never" (test_settings asserts it), jobs=0   *)
(* yields "--jobs 0" and extras=[] yields "--extras" "": violated.         *)
(***************************************************************************)
C24_EmptyFieldsNoTokens ==
    oout.called =>
        /\ \A f \in DOMAIN oin :
              oin[f] \in EmptyFieldValues[f] =>
                  oout.args = ToArgsOf([oin EXCEPT ![f] = DefaultOf(oin)[f]])
        /\ oin = DefaultOf(oin) => oout.args = <<>>

(***************************************************************************)
(* C24 amended: every flag field that is False, every optional field that  *)
(* is None, verbose = 0 and an empty features, config, unstable_flags or   *)
(* rustc_flags contributes no token to to_args(), and a settings object    *)
(* with all defaults yields the empty list.  A color, jobs or extras that  *)
(* is set contributes its tokens whatever its value.                       *)
(***************************************************************************)
C24_UnsetFieldsNoTokens ==
    oout.called =>
        /\ \A f \in DOMAIN oin :
              (/\ oin[f] \in EmptyFieldValues[f]
               /\ f = "color" => oin[f] = "None"
               /\ f = "jobs" => oin[f] = NoneInt
               /\ f = "extras" => oin[f] = NoneList) =>
                  oout.args = ToArgsOf([oin EXCEPT ![f] = DefaultOf(oin)[f]])
        /\ oin = DefaultOf(oin) => oout.args = <<>>
        /\ (oin.color = "False") =>
              \E k \in 1..(Len(oout.args) - 1) :
                  oout.args[k] = "--color" /\ oout.args[k + 1] = "never"
        /\ (oin.jobs = 0) =>
              \E k \in 1..(Len(oout.args) - 1) :
                  oout.args[k] = "--jobs" /\ oout.args[k + 1] = "0"
        /\ ("extras" \in DOMAIN oin /\ oin.extras = <<>>) =>
              (oout.args[1] = "--extras" /\ oout.args[2] = "")

\* a MaturinDevelopSettings with empty lists and skip_install False has
\* been translated to no argument at all
C24_Witness ==
    /\ oout.called
    /\ "extras" \in DOMAIN oin
    /\ oin.features = <<>>
    /\ oin.rustc_flags = <<>>
    /\ ~oin.skip_install
    /\ oout.args = <<>>

(***************************************************************************)
(* C25: to_args() depends only on the field values: any settings object of *)
(* the same class that compares equal (==) to the one translated produces  *)
(* the identical argument list, so the build-args comparison of the        *)
(* freshness check reports no mismatch for an unchanged configuration.     *)
(* Violated: config is a dict, == ignores the insertion order of its keys  *)
(* and to_args() emits the "--config" pairs in insertion order.            *)
(***************************************************************************)
C25_EqualSettingsEqualArgs ==
    oout.called =>
        \A other \in SettingsInputs :
            SettingsEq(oin, other) => ToArgsOf(other) = oout.args

(***************************************************************************)
(* C28: when pyproject.toml and the Cargo manifest parse, the resolved     *)
(* module_full_name is the first value present in the order                *)
(* tool.maturin.module-name of pyproject.toml, lib.name of Cargo.toml,     *)
(* project.name of pyproject.toml, package.name of Cargo.toml; a lower     *)
(* value is used only when all higher ones are absent, and resolution      *)
(* fails with ProjectResolveError when none is present.                    *)
(***************************************************************************)
C28_ModuleNamePrecedence ==
    (oout.called /\ oin.kind = "project") =>
        LET dir == oin.project_dir
            Parses(path) == path \in DOMAIN dir /\ "doc" \in DOMAIN dir[path]
        IN  Parses("pyproject.toml") =>
            LET pyproject == dir["pyproject.toml"].doc
                HasMaturin(key) == /\ "tool" \in DOMAIN pyproject
                                   /\ "maturin" \in DOMAIN pyproject.tool
                                   /\ key \in DOMAIN pyproject.tool.maturin
                manifest == IF HasMaturin("manifest-path")
                            THEN pyproject.tool.maturin["manifest-path"]
                            ELSE IF "Cargo.toml" \in DOMAIN dir THEN "Cargo.toml"
                            ELSE "rust/Cargo.toml"
            IN  Parses(manifest) =>
                LET cargo == dir[manifest].doc
                    Has(doc, table) == table \in DOMAIN doc /\ "name" \in DOMAIN doc[table]
                    names == <<IF HasMaturin("module-name")
                               THEN pyproject.tool.maturin["module-name"] ELSE NoneStr,
                               IF Has(cargo, "lib") THEN cargo.lib.name ELSE NoneStr,
                               IF Has(pyproject, "project")
                               THEN pyproject.project.name ELSE NoneStr,
                               IF Has(cargo, "package")
                               THEN cargo.package.name ELSE NoneStr>>
                    present == {k \in 1..4 : names[k] # NoneStr}
                IN  IF present = {}
                    THEN oout.resolved = Raised("ProjectResolveError")
                    ELSE /\ ~HasRaised(oout.resolved)
                         /\ \E k \in present :
                              /\ \A j \in present : k <= j
                              /\ oout.resolved.module_full_name = names[k]

\* a project with project.name and package.name but neither an override nor
\* lib.name has been resolved to project.name
C28_Witness ==
    /\ oout.called
    /\ oin.kind = "project"
    /\ ~HasRaised(oout.resolved)
    /\ oout.resolved.module_full_name = "project_name"
    /\ oout.resolved.cargo_manifest_path = "Cargo.toml"
    /\ "package" \in DOMAIN oin.project_dir["Cargo.toml"].doc
    /\ "name" \in DOMAIN oin.project_dir["Cargo.toml"].doc.package

(***************************************************************************)
(* C29: for every tree of path dependencies, cycles and self-references    *)
(* included, all_path_dependencies is computed in a bounded number of      *)
(* iterations and is exactly the set of directories reachable from the     *)
(* immediate path dependencies by following the manifests (the least set   *)
(* that holds the immediate dependencies and is closed under the path      *)
(* dependencies of its members), each directory once.                      *)
(***************************************************************************)
C29_AllPathDependenciesIsReachableSet ==
    (oout.called /\ oin.kind = "tree") =>
        LET found == {oout.all_path_dependencies[k] :
                         k \in 1..Len(oout.all_path_dependencies)}
            immediate == {oin.immediate_path_dependencies[k] :
                             k \in 1..Len(oin.immediate_path_dependencies)}
            Items(d) == oin.tree[d].doc.dependencies
            Deps(d) == IF d \in DOMAIN oin.tree
                       THEN {Items(d)[k][2].dict.path :
                                k \in {j \in 1..Len(Items(d)) :
                                          /\ "dict" \in DOMAIN Items(d)[j][2]
                                          /\ "path" \in DOMAIN Items(d)[j][2].dict}}
                       ELSE {}
            Closed(S) == immediate \subseteq S /\ \A d \in S : Deps(d) \subseteq S
        IN  /\ Closed(found)
            /\ \A S \in SUBSET DepDirs : Closed(S) => found \subseteq S
            /\ Len(oout.all_path_dependencies) = Cardinality(found)
            /\ oout.iterations <= Len(oin.immediate_path_dependencies)
                                    + Cardinality(found) * Cardinality(DepDirs)

\* a tree where directory 1 depends on 2 and 2 depends on 1 and on itself
\* has been searched from 1
C29_Witness ==
    /\ oout.called
    /\ oin.kind = "tree"
    /\ oin.immediate_path_dependencies = <<1>>
    /\ oin.tree = (1 :> CargoOf(<<2>>)) @@ (2 :> CargoOf(<<1, 2>>))
    /\ oout.all_path_dependencies = <<1, 2>>

(***************************************************************************)
(* C26: a file inside a directory with an excluded name, under the project *)
(* directory or under a path dependency, never affects the project mtime,  *)
(* even when it is the newest file of the tree: a step that adds, saves or *)
(* removes only such files changes neither the computed project mtime nor  *)
(* the outcome of the freshness check.                                     *)
(***************************************************************************)
C26_ExcludedDirsIgnored ==
    [][LET InExcludedDir(f) ==
               /\ FileInfo[f].root \in {ProjectDir} \cup AllPathDependencies
               /\ \E k \in 1..Len(FileInfo[f].dirs) :
                     FileInfo[f].dirs[k] \in {"target", "__pycache__"}
       IN  (/\ fs' # fs
            /\ \A f \in Files : fs'[f] # fs[f] => InExcludedDir(f)
            /\ build_status' = build_status) =>
               /\ GetProjectMtime(DEFAULT_EXCLUDED_DIR_NAMES)'
                      = GetProjectMtime(DEFAULT_EXCLUDED_DIR_NAMES)
               /\ CheckFreshness(ProjectModule,
                      CheckInputs(ProjectModule, force_rebuild, DefaultSettings))'
                      = CheckFreshness(ProjectModule,
                            CheckInputs(ProjectModule, force_rebuild, DefaultSettings))
    ]_vars

\* the project was found fresh while a file of the target directory of the
\* path dependency, added after the build, was the newest file of the tree
\* and newer than the installed extension module
C26_Witness ==
    /\ \E p \in Procs : outcome[p] = "fresh" /\ importing[p] = ProjectModule
    /\ Exists("dep_target_d")
    /\ Exists("ext_so")
    /\ \A f \in Files \ {"dep_target_d"} : Exists(f) => fs[f] < fs["dep_target_d"]

(***************************************************************************)
(* C21: when the project finder examines a candidate project directory     *)
(* whose manifest is missing or unparsable, or for which no module name    *)
(* can be determined, it declines the candidate: no exception leaves       *)
(* find_spec, the cache lock is not acquired, the build tool is not        *)
(* invoked, and the search continues with the remaining candidates.        *)
(* Violated: only ProjectResolveError is caught; the TOMLDecodeError of an *)
(* unparsable manifest and the FileNotFoundError of a manifest-path that   *)
(* names no file leave find_spec.                                          *)
(***************************************************************************)
C21_UnresolvableCandidateDeclined ==
    [][LET call == oout.call
           search_path == call.search_paths[call.i]
           candidate ==
               IF call.phase = "dist_info"
               THEN IF search_path.dist_info = NoDistInfo THEN NoneInt
                    ELSE search_path.dist_info.url
               ELSE IF call.phase = "above" THEN search_path.above
               ELSE IF call.phase = "rebuild" THEN call.project_dir
               ELSE NoneInt
           Unresolvable(dir) ==
               dir \in {CandidateDirs.no_manifest, CandidateDirs.missing_manifest,
                        CandidateDirs.bad_cargo, CandidateDirs.bad_pyproject,
                        CandidateDirs.no_name}
       IN  (/\ oin.finder = "project"
            /\ candidate # NoneInt
            /\ Unresolvable(oin.projects[candidate])) =>
               /\ oout'.call.phase # "raised"
               /\ ~oout'.call.is_locked
               /\ oout'.call.locks = call.locks
               /\ oout'.call.builds = call.builds
               /\ \/ oout'.call.phase \in {"dist_info", "above", "rebuild"}
                  \/ /\ oout'.call.phase = "returned"
                     /\ ~oout'.call.spec
                     /\ call.i = Len(call.search_paths)
    ]_vars

(***************************************************************************)
(* C22: when the requested module is already in sys.modules, find_spec of  *)
(* both finders returns None at once, without search, lock, freshness      *)
(* check or build; the call that loaded the module made at most one        *)
(* freshness check, so importing the module again in the same process      *)
(* triggers at most one freshness check in all.                            *)
(***************************************************************************)
C22_LoadedModuleDeclinedAtOnce ==
    [][/\ (oout.sys_modules /\ oout.call.phase = "idle" /\ oout' # oout) =>
             /\ oout'.call.phase = "returned"
             /\ ~oout'.call.spec
             /\ oout'.call.search_paths = <<>>
       /\ oout'.sys_modules =>
             /\ oout'.call.locks = 0
             /\ oout'.call.checks = 0
             /\ oout'.call.builds = 0
             /\ ~oout'.call.is_locked
       /\ (~oout.sys_modules /\ oout'.sys_modules) => oout.call.checks <= 1
    ]_vars

\* the rust file finder has returned None for a module it loaded before
C22_Witness ==
    /\ oin.finder = "rust_file"
    /\ oout.sys_modules
    /\ oout.call.phase = "returned"
    /\ ~oout.call.spec

(***************************************************************************)
(* C27: with install_new_packages = False the project finder never locks   *)
(* the cache for, nor builds, a project that is not installed or is        *)
(* installed in non-editable mode (no .pth file links to it and no         *)
(* dist-info names it as editable); a project installed in editable mode   *)
(* (linked by the .pth file, or by the editable dist-info of its installed *)
(* package directory) is still checked, and rebuilt when it is stale.      *)
(***************************************************************************)
C27_NoBuildUnlessEditable ==
    [][LET call == oout.call
           Linked(project_dir) == oin.site.pth = project_dir
           EditableDistInfo(project_dir) ==
               /\ oin.site.dist_info # NoDistInfo
               /\ oin.site.dist_info.editable
               /\ oin.site.dist_info.url = project_dir
       IN  (oin.finder = "project" /\ ~oin.install_new_packages) =>
             /\ (oout'.call.is_locked \/ oout'.call.builds > 0) =>
                    \/ Linked(oout'.call.project_dir)
                    \/ EditableDistInfo(oout'.call.project_dir)
             /\ (/\ call.phase = "rebuild"
                 /\ oout' # oout
                 /\ oin.projects[call.project_dir] = CandidateDirs.good
                 /\ \/ Linked(call.project_dir)
                    \/ oin.site.package_dir /\ EditableDistInfo(call.project_dir)) =>
                    oout'.call.phase = "locked"
             /\ (call.phase = "locked" /\ oout' # oout /\ ~oout'.call.spec) =>
                    oout'.call.phase = "building"
             /\ (call.phase = "building" /\ oout' # oout) =>
                    oout'.call.builds = call.builds + 1
    ]_vars

\* with install_new_packages = False a stale project installed in editable
\* mode has been rebuilt
C27_Witness ==
    /\ oin.finder = "project"
    /\ ~oin.install_new_packages
    /\ oout.call.phase = "returned"
    /\ oout.call.rebuilt
    /\ oout.call.builds = 1
    /\ oin.site.dist_info # NoDistInfo
    /\ oin.site.dist_info.editable
    /\ oin.site.dist_info.url = oout.call.project_dir

(***************************************************************************)
(* C30: each find_spec call of either finder ends in exactly one terminal  *)
(* outcome: declined (None, no build), found fresh (spec, no build), built *)
(* (spec after exactly one build) or failed (an exception after at most    *)
(* one build).  No call runs the build tool more than once, and after a    *)
(* build no further candidate is examined.                                 *)
(***************************************************************************)
C30_OneTerminalOutcome ==
    LET call == oout.call
        declined == /\ call.phase = "returned" /\ ~call.spec
                    /\ ~call.rebuilt /\ call.builds = 0
        fresh == /\ call.phase = "returned" /\ call.spec
                 /\ ~call.rebuilt /\ call.builds = 0 /\ call.checks = 1
        built == /\ call.phase = "returned" /\ call.spec
                 /\ call.rebuilt /\ call.builds = 1
        failed == /\ call.phase = "raised" /\ ~call.spec
                  /\ call.exc # NoneStr /\ call.builds <= 1
    IN  /\ call.builds <= 1
        /\ call.builds = 1 => call.phase \in {"returned", "raised"}
        /\ call.phase \in {"returned", "raised"} =>
              /\ Cardinality({o \in {<<1, declined>>, <<2, fresh>>,
                                     <<3, built>>, <<4, failed>>} : o[2]}) = 1
              /\ ~call.is_locked

\* a call of the project finder has declined its first candidate and built
\* a later one
C30_Witness ==
    /\ oin.finder = "project"
    /\ oout.call.phase = "returned"
    /\ oout.call.rebuilt
    /\ oout.call.builds = 1
    /\ oout.call.i = 2
    /\ 1 \in DOMAIN oout._resolved_project_cache
    /\ oout.call.project_dir = 2

(***************************************************************************)
(* C23: in a race of interpreters importing the same source with no lock   *)
(* timeout, under fair scheduling and a build that succeeds, every         *)
(* interpreter that has started its import eventually finishes it with the *)
(* module found fresh or built; none waits for the lock forever, and an    *)
(* interpreter obtains the lock only when every other one is before its    *)
(* acquisition or has given the lock back.                                 *)
(* Violated on a platform that uses AtomicOpenLock when a lock file was    *)
(* left behind: every interpreter polls forever.                           *)
(***************************************************************************)
C23_RaceTerminates ==
    /\ \A p \in Procs :
          (importing[p] # NoModule) ~>
              (pc[p] = "rel_done" /\ outcome[p] \in {"fresh", "built"})
    /\ [][\A p \in Procs :
             (pc[p] = "acq_try" /\ pc'[p] = "acq_set") =>
                 \A q \in Procs \ {p} :
                     pc[q] \in {"idle", "acq_try", "acq_failed", "rel_set", "rel_done"}
         ]_vars

\* the files of the tree at or below one of dirs that a walk from there
\* reaches without entering a directory with an excluded name
FilesCounted(dirs, excluded_dir_names, tree) ==
    {path \in DOMAIN tree :
        /\ ~tree[path].is_dir
        /\ \E k \in 1..Len(dirs) :
              /\ Len(path) > Len(dirs[k])
              /\ SubSeq(path, 1, Len(dirs[k])) = dirs[k]
              /\ \A j \in (Len(dirs[k]) + 1)..(Len(path) - 1) :
                    path[j] \notin excluded_dir_names}

\* path is the installed package root or lies below it
InInstalledPackage(path) ==
    /\ Len(path) >= Len(InstalledRootPath)
    /\ SubSeq(path, 1, Len(InstalledRootPath)) = InstalledRootPath

\* C31 (SpecMtime): the installed mtime of a directory is the least mtime of
\* the files recursively contained in it outside excluded directory names,
\* that of a single file is the file's own mtime, and it is None, not an
\* exception, when the directory holds no such file or the file is missing.
C31_InstalledMtimeIsOldestFile ==
    oout.called = "_get_installed_package_mtime" =>
        LET contained == FilesCounted(<<InstalledRootPath>>, oin.excluded_dir_names,
                                      oin.tree)
        IN  /\ ~HasRaised(oout.result)
            /\ IF IsDir(InstalledRootPath, oin.tree)
               THEN IF contained = {} THEN oout.result.value = NoMtime
                    ELSE /\ \E path \in contained :
                               oout.result.value = oin.tree[path].st_mtime
                         /\ \A path \in contained :
                               oout.result.value <= oin.tree[path].st_mtime
               ELSE IF InstalledRootPath \in DOMAIN oin.tree
               THEN oout.result.value = oin.tree[InstalledRootPath].st_mtime
               ELSE oout.result.value = NoMtime

\* C31 witness: the installed package is a directory whose byte-code cache
\* is counted and is newer than the extension module, and the installed
\* mtime returned is that of the extension module.
C31_Witness ==
    /\ oout.called = "_get_installed_package_mtime"
    /\ IsDir(InstalledRootPath, oin.tree)
    /\ oin.excluded_dir_names = {}
    /\ Append(InstalledRootPath, "pyo3_mixed.so") \in DOMAIN oin.tree
    /\ <<"project", "pyo3_mixed", "__pycache__", "__init__.pyc">> \in DOMAIN oin.tree
    /\ oin.tree[<<"project", "pyo3_mixed", "__pycache__", "__init__.pyc">>].st_mtime
          > oin.tree[Append(InstalledRootPath, "pyo3_mixed.so")].st_mtime
    /\ oout.result = [value |-> oin.tree[Append(InstalledRootPath,
                                                "pyo3_mixed.so")].st_mtime]

\* C32 as stated (SpecMtime): the project mtime is the greatest mtime of the
\* files of the project directory and of the path dependencies given, outside
\* excluded directory names and leaving out every file of the installed
\* artifact; None when no file remains or a path dependency is missing.
C32_InstalledArtifactNeverCounts ==
    oout.called = "_get_project_mtime" =>
        LET dirs == <<ProjectPath>> \o oin.all_path_dependencies
            counted == {path \in FilesCounted(dirs, oin.excluded_dir_names, oin.tree) :
                           ~InInstalledPackage(path)}
        IN  IF (\E k \in 1..Len(dirs) : dirs[k] \notin DOMAIN oin.tree) \/ counted = {}
            THEN oout.result = [value |-> NoMtime]
            ELSE /\ ~HasRaised(oout.result)
                 /\ \E path \in counted : oout.result.value = oin.tree[path].st_mtime
                 /\ \A path \in counted : oout.result.value >= oin.tree[path].st_mtime

\* C32 amended (SpecMtime): the project mtime is the greatest mtime of the
\* files of the project directory and of the path dependencies given, outside
\* excluded directory names and, when the installed artifact is a directory,
\* leaving out the files below it: a file below an installed artifact
\* directory never contributes, an installed artifact that is a single file
\* inside the project directory does.  None when no file remains or a path
\* dependency is missing.
C32_InstalledDirectoryNeverCounts ==
    oout.called = "_get_project_mtime" =>
        LET dirs == <<ProjectPath>> \o oin.all_path_dependencies
            counted == {path \in FilesCounted(dirs, oin.excluded_dir_names, oin.tree) :
                           ~(IsDir(InstalledRootPath, oin.tree)
                                /\ InInstalledPackage(path))}
        IN  IF (\E k \in 1..Len(dirs) : dirs[k] \notin DOMAIN oin.tree) \/ counted = {}
            THEN oout.result = [value |-> NoMtime]
            ELSE /\ ~HasRaised(oout.result)
                 /\ \E path \in counted : oout.result.value = oin.tree[path].st_mtime
                 /\ \A path \in counted : oout.result.value >= oin.tree[path].st_mtime

\* C32 witness: the installed package is a directory that holds the newest
\* file of the project directory, a source file and a file of the path
\* dependency exist, and the project mtime returned is older than the file
\* of the installed package.
C32_Witness ==
    /\ oout.called = "_get_project_mtime"
    /\ IsDir(InstalledRootPath, oin.tree)
    /\ oin.all_path_dependencies = <<PathDepPath>>
    /\ Append(InstalledRootPath, "pyo3_mixed.so") \in DOMAIN oin.tree
    /\ <<"project", "src", "lib.rs">> \in DOMAIN oin.tree
    /\ Append(PathDepPath, "lib.rs") \in DOMAIN oin.tree
    /\ oin.excluded_dir_names = DEFAULT_EXCLUDED_DIR_NAMES
    /\ oout.result.value # NoMtime
    /\ oout.result.value < oin.tree[Append(InstalledRootPath, "pyo3_mixed.so")].st_mtime

\* C33 (SpecResolver): over any sequence of resolve calls of one resolver,
\* the resolution of a directory runs at most once, whether it succeeded or
\* failed, and every later call for the directory ends as the first call for
\* it did, whatever happened to the manifests in between.
\* Violated: a resolution that fails with an exception other than
\* ProjectResolveError is not cached and runs again at the next call.
C33_ResolvedAtMostOnce ==
    /\ \A project_dir \in ResolverDirs : oout.resolutions[project_dir] <= 1
    /\ oout.last.project_dir # NoneInt =>
          oout.last.result = oout.first[oout.last.project_dir]

\* C34 (SpecWarnings): whenever the freshness check returns a spec, the
\* finder has show_warnings and the output in the cached BuildStatus holds
\* compiler warnings, the warnings are logged exactly once in that import
\* attempt, and the output shown is the output of the build that produced the
\* current artifact; an attempt that builds logs the warnings of its build
\* once.
\* Violated: after an install without the hook one second after the recorded
\* build, the check still returns a spec and the output of the recorded build
\* is shown for an artifact that another build wrote.
C34_CachedWarningsShownAgain ==
    /\ (/\ oout.last.outcome = "fresh"
        /\ oout.last.show_warnings
        /\ maturin_output_has_warnings(oout.last.cached_output))
       => /\ oout.last.logged =
                <<[level |-> "WARNING", prefix |-> "the last ",
                   output |-> oout.last.cached_output]>>
          /\ oout.last.cached_output = oout.last.artifact_output
    /\ (/\ oout.last.outcome = "built"
        /\ oout.last.show_warnings
        /\ maturin_output_has_warnings(oout.last.artifact_output))
       => oout.last.logged =
             <<[level |-> "WARNING", prefix |-> "",
                output |-> oout.last.artifact_output]>>

\* C35 (SpecAttempt): when the build tool has succeeded and the module is not
\* found afterwards, the attempt ends with an ImportError whose message is
\* none of the messages of a failed build, the step stores no BuildStatus,
\* and the attempt makes no store call up to its end.
C35_MissingModuleIsNotBuildFailure ==
    [][\A p \in Procs :
          /\ (/\ pc[p] = "post"
              /\ pc'[p] # "post"
              /\ IF importing[p] = ProjectModule THEN ~Exists("pth")
                 ELSE ~Exists("script_so"))
             => /\ outcome'[p] = "load_failed"
                /\ ImportErrorMessages(importing[p], outcome'[p]) # {}
                /\ ImportErrorMessages(importing[p], outcome'[p])
                      \cap ImportErrorMessages(importing[p], "build_failed") = {}
                /\ build_status' = build_status
          /\ outcome'[p] = "load_failed"
             => "store_build_status" \notin cache_calls'[p].calls
      ]_vars

\* C35 witness: an attempt on the project whose build tool exited with
\* status 0 is about to raise for the missing package, and the build cache
\* holds no record of the project.
C35_Witness ==
    \E p \in Procs :
        /\ importing[p] = ProjectModule
        /\ pc[p] = "rel_done"
        /\ outcome[p] = "load_failed"
        /\ builds[ProjectModule] >= 1
        /\ build_status[BuildStatusPath(SourcePath(ProjectModule))] = NoFile

\* C36 (SpecVariants): after every sequence of acquire and release
\* operations by several instances on one path, a process killed while it
\* holds the lock included, the three lock subclasses have ended every
\* operation in the same way and their instances have the same is_locked.
\* Violated: after the holder is killed the next acquire gets the lock of a
\* FcntlFileLock or WindowsFileLock and times out on an AtomicOpenLock.
C36_VariantsAgree ==
    \A kind \in LockKinds :
        /\ oout.outcomes[kind] = oout.outcomes["FcntlFileLock"]
        /\ oout.locks[kind].is_locked = oout.locks["FcntlFileLock"].is_locked

(***************************************************************************)
(* C37: each acquire() call logs the waiting notice at most once, exactly  *)
(* when its first attempt fails and never when the first attempt           *)
(* succeeds; in a race for a never-built source the process that builds    *)
(* logs no notice and each process that had to wait logs exactly one.      *)
(*   - no call has logged more than one notice;                            *)
(*   - a call that leaves a failed attempt behind has logged exactly one,  *)
(*     whether it sleeps and tries again or not;                           *)
(*   - the count changes in no other step, so a call whose first attempt   *)
(*     succeeds logs none;                                                 *)
(*   - the process that runs the build tool, and the one that returns the  *)
(*     module as rebuilt, has logged none.                                 *)
(***************************************************************************)
C37_OneWaitingNotice ==
    /\ [](\A p \in Procs : waiting_notices[p] <= 1)
    /\ [][\A p \in Procs :
            IF pc[p] = "acq_failed" /\ pc'[p] # "acq_failed"
            THEN waiting_notices'[p] = 1
            ELSE waiting_notices'[p] = waiting_notices[p]]_vars
    /\ [](\A p \in Procs :
            (pc[p] \in {"build", "in_build", "post"} \/ outcome[p] = "built")
                => waiting_notices[p] = 0)

\* one process has built without a notice, another has waited for it with
\* one notice and found the module fresh
C37_Witness ==
    \E p, q \in Procs :
        /\ pc[p] = "rel_done" /\ outcome[p] = "built" /\ waiting_notices[p] = 0
        /\ pc[q] = "rel_done" /\ outcome[q] = "fresh" /\ waiting_notices[q] = 1

\* process p has the build cache lock or a part of it: the operating
\* system's lock, the descriptor or the lock file of an AtomicOpenLock it
\* created and has not unlinked yet, or the flag of its instance
HoldsLock(p) ==
    \/ osLock = p
    \/ fd[p]
    \/ is_locked[p]
    \/ lockKind = "AtomicOpenLock" /\ pc[p] \in {"acq_set", "rel_unlink"}

\* the positions between the __enter__ and the end of the __exit__ of the
\* with block of _rebuild_project / _import_rust_file
InLockBlock(p) ==
    pc[p] \in {"acq_set", "acq_done", "build", "in_build", "post",
               "rel_enter", "rel_set", "rel_unlink"}

(***************************************************************************)
(* C38: whenever find_spec returns or raises (found fresh, built, build    *)
(* failed, module missing after the build, TimeoutError), the process no   *)
(* longer holds the build cache lock; the lock is held only inside the     *)
(* scoped lock() block, so a failed import leaves nobody blocked.          *)
(*   - a process that holds the lock or a part of it is inside the block;  *)
(*   - a process whose find_spec has ended holds nothing;                  *)
(*   - the lock that others find taken is taken by a process inside the    *)
(*     block: no OS lock and no lock file outlives the attempt that took   *)
(*     it.                                                                 *)
(***************************************************************************)
C38_LockHeldOnlyInsideBlock ==
    /\ \A p \in Procs : HoldsLock(p) => InLockBlock(p)
    /\ \A p \in Procs : pc[p] \in {"rel_done", "acq_raise", "idle"} => ~HoldsLock(p)
    /\ \A q \in Procs :
          ~SysLockSucceeds(q) => \E p \in Procs : HoldsLock(p) /\ InLockBlock(p)

\* an import that failed has ended and the other process, which waited for
\* it, has taken the lock
C38_Witness ==
    \E p, q \in Procs :
        /\ pc[p] = "rel_done" /\ outcome[p] \in {"build_failed", "load_failed"}
        /\ ~first_attempt[q] /\ pc[q] = "acq_done" /\ is_locked[q]

(***************************************************************************)
(* C40: the project finder stores a BuildStatus only after a successful    *)
(* build and only when the installed package root and its mtime can be     *)
(* determined afterwards, with build_mtime the installed mtime measured    *)
(* after the build, source_path the project directory and args             *)
(* settings.to_args(); otherwise the import still returns the spec as      *)
(* rebuilt, nothing is stored and the next attempt rebuilds again.         *)
(*   - the record of the project changes only in the step after a build    *)
(*     that did not fail, by the process that ran it, with the installed   *)
(*     root found and measured, and holds these three values;              *)
(*   - when the module is found but its installed root or mtime is not,    *)
(*     the attempt ends as built, the cache is as before, no store call    *)
(*     is made, and the freshness check in the state it leaves returns no  *)
(*     spec.                                                               *)
(***************************************************************************)
C40_StatusStoredOnlyWhenMeasured ==
    [][LET s == ProjectModule
           root == FindInstalledPackageRoot
           mtime == GetInstalledPackageMtime(root)
           measured == root # "" /\ mtime # NoMtime
           record == get_build_status(build_status, SourcePath(s))
       IN /\ record' # record =>
                \E p \in Procs :
                    /\ pc[p] = "post" /\ pc'[p] = "rel_enter" /\ importing[p] = s
                    /\ builds[s] >= 1
                    /\ outcome'[p] = "built"
                    /\ measured
                    /\ record'.build_mtime = mtime
                    /\ record'.source_path = Path(ProjectDir)
                    /\ record'.maturin_args = to_args(settings[p])
          /\ \A p \in Procs :
                (/\ pc[p] = "post" /\ pc'[p] = "rel_enter" /\ importing[p] = s
                 /\ FindSpecForPackage /\ ~measured) =>
                    /\ outcome'[p] = "built"
                    /\ build_status' = build_status
                    /\ "store_build_status" \notin cache_calls'[p].calls
                    /\ ~CheckFreshness(s, CheckInputs(s, FALSE, settings[p]))'.spec
      ]_vars

\* the project was built twice, the second time by this attempt, which
\* returns the spec as rebuilt; the installed root cannot be found and the
\* cache has no record of the project
C40_Witness ==
    \E p \in Procs :
        /\ importing[p] = ProjectModule
        /\ pc[p] = "rel_done" /\ outcome[p] = "built"
        /\ builds[ProjectModule] = 2
        /\ FindSpecForPackage /\ FindInstalledPackageRoot = ""
        /\ get_build_status(build_status, SourcePath(ProjectModule)) = NoStatus

\* the finders of a module registered in sys.meta_path
Registered(hooks, module) ==
    {i \in DOMAIN hooks.meta_path : hooks.meta_path[i].module = module}

(***************************************************************************)
(* C39: after any sequence of install() and uninstall() calls of a finder  *)
(* module, sys.meta_path holds at most one finder of that module; the      *)
(* module's IMPORTER is not None exactly when that finder is the one       *)
(* registered; install() replaces the finder installed before and puts the *)
(* new one first; uninstall() with nothing installed changes nothing.      *)
(***************************************************************************)
C39_OneRegisteredFinder ==
    /\ [](\A module \in FinderModules :
            LET hooks == oout.hooks IN
            /\ Cardinality(Registered(hooks, module)) <= 1
            /\ hooks.IMPORTER[module] # NoFinder <=>
                  \E i \in DOMAIN hooks.meta_path :
                      hooks.meta_path[i] = hooks.IMPORTER[module])
    /\ [][\A module \in FinderModules :
            LET earlier == oout.hooks
                hooks == oout'.hooks
                call == oout'.calls[Len(oout'.calls)]
            IN /\ (call = <<"install", module>> /\ ~hooks.raised) =>
                     /\ hooks.meta_path[1] = hooks.IMPORTER[module]
                     /\ hooks.IMPORTER[module] # earlier.IMPORTER[module]
                     /\ \A i \in DOMAIN hooks.meta_path :
                           hooks.meta_path[i] # earlier.IMPORTER[module]
               /\ (call = <<"uninstall", module>>
                      /\ earlier.IMPORTER[module] = NoFinder) =>
                     /\ hooks.meta_path = earlier.meta_path
                     /\ hooks.IMPORTER = earlier.IMPORTER]_vars

====
